---- MODULE Spec2Model ----
(***************************************************************************)
(* Model of the auction ingest loop of src/ingest.js: one cycle fetches    *)
(* every page of the upstream feed, bulk-upserts each page into the        *)
(* auctions table, marks unseen auctions ended, promotes ended auctions    *)
(* into the sales table and backfills sales.item_key.                      *)
(*                                                                         *)
(* Tables are sets of rows (records), so that a duplicate uuid is a state  *)
(* the model can express.  Time is in milliseconds, as in the source.      *)
(***************************************************************************)
EXTENDS Integers, Sequences, FiniteSets, TLC

(***************************************************************************)
(* Program constants (src/ingest.js).                                      *)
(***************************************************************************)
LOOP_EVERY_MS == 120000
PER_SYNC_GRACE_MS == 60000
SALES_KEY_BACKFILL_BATCH == 20000
FINALIZE_BATCH == 5000
FINALIZE_MAX_LOOPS == 60
MAX_PAGES_HARD_CAP == 200
FETCH_TRIES == 4

(***************************************************************************)
(* Bounds of the model.                                                    *)
(***************************************************************************)
MaxCycles == 2
MaxTotalPages == 2

(***************************************************************************)
(* Values.  SQL NULL / JS null of a text column is the string Null; a      *)
(* signature is a record so that NULL, '' and a token string are distinct. *)
(* A token string "k1:v1|k2:v2" is the sequence of its tokens.             *)
(***************************************************************************)
Null == "<null>"
Tok(k, v) == [key |-> k, val |-> v]
NullSig == [isNull |-> TRUE, toks |-> << >>]
Sig(toks) == [isNull |-> FALSE, toks |-> toks]

Max(a, b) == IF a >= b THEN a ELSE b
Min(a, b) == IF a <= b THEN a ELSE b

\* SQL: sig IS NULL OR sig = ''
sigIsEmpty(s) == s.isNull \/ s.toks = << >>
\* SQL: sig LIKE '%pet_item:%'  (NULL LIKE ... is not true)
sigHasPetItem(s) == ~s.isNull /\ \E n \in 1..Len(s.toks) : s.toks[n].key = "pet_item"

(***************************************************************************)
(* parseLore.js, as far as the ingest loop depends on it.  The ingest loop *)
(* only inspects a signature for emptiness, for a pet_item: token and      *)
(* stores it; so the item content is kept abstract: an item name is one of *)
(* the names below, an item_bytes payload is named after the               *)
(* ExtraAttributes it decodes to.                                          *)
(***************************************************************************)
\* canonicalItemKey on the names of the feed: the reforge prefix and the
\* "[Lvl n]" prefix are stripped, the rest lowercased; an empty name yields "".
canonicalItemKey(name) ==
  CASE name = "Heroic Hyperion" -> "hyperion"
    [] name = "[Lvl 100] Ender Dragon" -> "ender dragon"
    [] OTHER -> ""

\* total stars read from ExtraAttributes (dungeon_item_level / upgrade_level)
starsOfBytes(itemBytes) ==
  CASE itemBytes = "nbt{dungeon_item_level:5}" -> 5
    [] itemBytes = "nbt{dungeon_item_level:8}" -> 8
    [] OTHER -> 0

\* pet held item: ExtraAttributes first, then the "Held Item:" lore line
petItemOf(itemBytes, lore) ==
  IF itemBytes = "nbt{heldItem:TIER_BOOST}" \/ lore = "Held Item: Tier Boost"
  THEN "tier_boost" ELSE ""

\* normKey(tier): the tier lowercased
tierKey(tier) ==
  CASE tier = "LEGENDARY" -> "legendary"
    [] tier = "EPIC" -> "epic"
    [] OTHER -> ""

\* buildSignature: the tokens in their fixed order, omitting absent ones.
buildSignature(itemName, lore, tier, itemBytes) ==
  LET total == starsOfBytes(itemBytes)
      dst == Min(total, 5)
      mst == Max(0, total - 5)
      pet == petItemOf(itemBytes, lore)
      num == << "1", "2", "3", "4", "5", "6", "7", "8", "9", "10" >>
  IN  Sig( (IF tierKey(tier) # "" THEN << Tok("tier", tierKey(tier)) >> ELSE << >>)
        \o (IF dst > 0 THEN << Tok("dstars", num[dst]) >> ELSE << >>)
        \o (IF mst > 0 THEN << Tok("mstars", num[mst]) >> ELSE << >>)
        \o (IF total > 0 THEN << Tok("stars10", num[total]) >> ELSE << >>)
        \o (IF pet # "" THEN << Tok("pet_item", pet) >> ELSE << >>) )

\* buildSignature throws: unwrap recurses once per nesting level of the decoded
\* payload and overflows the call stack on a payload nested too deep
buildSignatureThrows(itemName, lore, tier, itemBytes) == itemBytes = "nbt{nested too deep}"

\* mutant of safeBuildSignature: the catch block returns the error message
safeBuildSignature_ReturnsMessage(itemName, lore, tier, itemBytes) ==
  IF buildSignatureThrows(itemName, lore, tier, itemBytes)
  THEN Sig(<< Tok("error", "buildSignature failed") >>)
  ELSE LET sig == buildSignature(itemName, lore, tier, itemBytes)
       IN  IF sig.toks # << >> THEN sig ELSE NullSig

\* safeBuildSignature: a non-empty string, else null; null as well when
\* buildSignature throws
safeBuildSignature(itemName, lore, tier, itemBytes) ==
  IF buildSignatureThrows(itemName, lore, tier, itemBytes) THEN NullSig
  ELSE LET sig == buildSignature(itemName, lore, tier, itemBytes)
       IN  IF sig.toks # << >> THEN sig ELSE NullSig

\* what safeBuildSignature writes to the error log
safeBuildSignatureLog(itemName, lore, tier, itemBytes) ==
  IF buildSignatureThrows(itemName, lore, tier, itemBytes)
  THEN << "buildSignature failed" >> ELSE << >>

\* nonEmptyText: trimmed text, or null when missing or blank
nonEmptyText(x) == IF x = Null \/ x = "" \/ x = " " THEN Null ELSE x

(***************************************************************************)
(* The upstream feed: the auction objects a page may carry.  Two auctions  *)
(* are followed through several sightings; a third object has a blank uuid *)
(* and is skipped by the upsert.                                           *)
(***************************************************************************)
BootTime == 10 * LOOP_EVERY_MS
EndedAtBoot == BootTime - PER_SYNC_GRACE_MS
EndsLater == BootTime + LOOP_EVERY_MS + PER_SYNC_GRACE_MS

Auction(uuid, name, bin, end, sbid, hbid, tier, lore, bytes) ==
  [uuid |-> uuid, item_name |-> name, bin |-> bin, start |-> EndedAtBoot - LOOP_EVERY_MS,
   end |-> end, starting_bid |-> sbid, highest_bid |-> hbid, tier |-> tier,
   item_lore |-> lore, item_bytes |-> bytes]

Feed ==
  { \* a BIN listing, already past its end, sighted with 5 and with 8 stars
    Auction("a1", "Heroic Hyperion", TRUE, EndedAtBoot, 10, 0, "LEGENDARY",
            "lore", "nbt{dungeon_item_level:5}"),
    Auction("a1", "Heroic Hyperion", TRUE, EndedAtBoot, 20, 0, "LEGENDARY",
            Null, "nbt{dungeon_item_level:8}"),
    \* a bid auction: bare, with a payload buildSignature fails on, with a
    \* held pet item
    Auction("b2", "", FALSE, EndedAtBoot, 1, 5, Null, " ", Null),
    Auction("b2", "[Lvl 100] Ender Dragon", FALSE, EndsLater, 1, 7, "EPIC", Null,
            "nbt{nested too deep}"),
    Auction("b2", "[Lvl 100] Ender Dragon", FALSE, 0, 1, 9, "EPIC",
            "Held Item: Tier Boost", Null),
    \* an object without a usable uuid
    Auction(" ", "Heroic Hyperion", TRUE, EndsLater, 10, 0, Null, Null, Null) }

\* String(a.uuid || "").trim()
trimUuid(u) == IF u = " " THEN "" ELSE u

\* The auction lists a page may carry: the upstream lists an auction once.
Pages == { l \in SUBSET Feed : \A x, y \in l : x.uuid = y.uuid => x = y }

(***************************************************************************)
(* Store: the auctions and sales tables and their statements.              *)
(***************************************************************************)
hasRow(table, uuid) == \E r \in table : r.uuid = uuid
rowOf(table, uuid) == CHOOSE r \in table : r.uuid = uuid

\* upsertAuctionsBulk, lines 128-171: the row built from an auction object
toRow(a, now) ==
  LET lore == nonEmptyText(a.item_lore)
      bytes == nonEmptyText(a.item_bytes)
      tier == IF a.tier = Null \/ a.tier = "" THEN Null ELSE a.tier
      key == canonicalItemKey(a.item_name)
  IN  [uuid |-> trimUuid(a.uuid),
       item_name |-> a.item_name,
       item_key |-> IF key = "" THEN Null ELSE key,
       bin |-> a.bin,
       start_ts |-> a.start,
       end_ts |-> a.end,
       starting_bid |-> a.starting_bid,
       highest_bid |-> a.highest_bid,
       tier |-> tier,
       item_lore |-> lore,
       item_bytes |-> bytes,
       last_seen_ts |-> now,
       signature |-> IF a.bin \/ lore # Null \/ bytes # Null
                     THEN safeBuildSignature(a.item_name,
                                             IF lore = Null THEN "" ELSE lore,
                                             IF tier = Null THEN "" ELSE tier,
                                             IF bytes = Null THEN "" ELSE bytes)
                     ELSE NullSig,
       is_ended |-> FALSE]

\* The signature CASE of both ON CONFLICT clauses (lines 224-228, 299-303)
mergeSignature(existing, incoming) ==
  IF sigIsEmpty(existing) THEN incoming
  ELSE IF ~sigHasPetItem(existing) /\ sigHasPetItem(incoming) THEN incoming
  ELSE existing

\* COALESCE(EXCLUDED.x, auctions.x)
coalesce(x, y) == IF x # Null THEN x ELSE y


\* mutant of mergeAuction: is_ended is left as it was
mergeAuction_KeepsEnded(old, inc) ==
  [inc EXCEPT !.item_lore = coalesce(inc.item_lore, old.item_lore),
              !.item_bytes = coalesce(inc.item_bytes, old.item_bytes),
              !.signature = mergeSignature(old.signature, inc.signature),
              !.is_ended = old.is_ended]

\* mutant of mergeAuction: the bids are added up instead of replaced
mergeAuction_AddsBids(old, inc) ==
  [inc EXCEPT !.item_lore = coalesce(inc.item_lore, old.item_lore),
              !.item_bytes = coalesce(inc.item_bytes, old.item_bytes),
              !.signature = mergeSignature(old.signature, inc.signature),
              !.starting_bid = old.starting_bid + inc.starting_bid,
              !.highest_bid = old.highest_bid + inc.highest_bid]

\* ON CONFLICT (uuid) DO UPDATE SET ... of the auctions upsert
mergeAuction(old, inc) ==
  [uuid |-> old.uuid,
   item_name |-> inc.item_name,
   item_key |-> inc.item_key,
   bin |-> inc.bin,
   start_ts |-> inc.start_ts,
   end_ts |-> inc.end_ts,
   starting_bid |-> inc.starting_bid,
   highest_bid |-> inc.highest_bid,
   tier |-> inc.tier,
   item_lore |-> coalesce(inc.item_lore, old.item_lore),
   item_bytes |-> coalesce(inc.item_bytes, old.item_bytes),
   last_seen_ts |-> inc.last_seen_ts,
   signature |-> mergeSignature(old.signature, inc.signature),
   is_ended |-> FALSE]

\* The rows of a page: auctions with a blank uuid are skipped
pageRows(list, now) == { toRow(a, now) : a \in { x \in list : trimUuid(x.uuid) # "" } }


\* mutant of insertOnConflictUpdate: a plain INSERT, no conflict clause
insertOnConflictUpdate_Plain(table, rows) == table \cup rows

\* INSERT INTO auctions ... ON CONFLICT (uuid) DO UPDATE
insertOnConflictUpdate(table, rows) ==
  { r \in table : ~hasRow(rows, r.uuid) }
    \cup { IF hasRow(table, inc.uuid) THEN mergeAuction(rowOf(table, inc.uuid), inc) ELSE inc
           : inc \in rows }

\* upsertAuctionsBulk(list, now): the table after the committed transaction
upsertAuctionsBulk(table, list, now) == insertOnConflictUpdate(table, pageRows(list, now))


\* mutant of markNotSeenInSnapshotAsEnded: the cutoff is the loop interval
markNotSeen_LoopCutoff(table, now) ==
  { IF ~r.is_ended /\ r.last_seen_ts < now - LOOP_EVERY_MS
    THEN [r EXCEPT !.is_ended = TRUE] ELSE r : r \in table }

\* mutant of markNotSeenInSnapshotAsEnded: the cutoff is taken from the time of
\* the call, after a paged fetch that took LOOP_EVERY_MS
markNotSeen_AtCallTime(table, now) ==
  { IF ~r.is_ended /\ r.last_seen_ts < (now + LOOP_EVERY_MS) - PER_SYNC_GRACE_MS
    THEN [r EXCEPT !.is_ended = TRUE] ELSE r : r \in table }

\* markNotSeenInSnapshotAsEnded(now)
markNotSeenInSnapshotAsEnded(table, now) ==
  { IF ~r.is_ended /\ r.last_seen_ts < now - PER_SYNC_GRACE_MS
    THEN [r EXCEPT !.is_ended = TRUE] ELSE r : r \in table }

\* mutant of finalizeCandidates: the SELECT does not look at end_ts
finalizeCandidates_AnyEnd(auctionsT, salesT, now) ==
  { r \in auctionsT : ~r.is_ended \/ (r.is_ended /\ ~hasRow(salesT, r.uuid)) }

\* finalizeEnded, lines 261-279: the rows the SELECT may return
finalizeCandidates(auctionsT, salesT, now) ==
  { r \in auctionsT : /\ r.end_ts > 0
                      /\ r.end_ts <= now
                      /\ (~r.is_ended \/ (r.is_ended /\ ~hasRow(salesT, r.uuid))) }

\* ORDER BY a.end_ts ASC LIMIT n: the sets of rows the limited, ordered SELECT
\* may return (ties are broken by the database)
orderByEndTsLimit(rows, n) ==
  { b \in SUBSET rows : /\ Cardinality(b) = Min(Cardinality(rows), n)
                        /\ \A x \in b, y \in rows \ b : x.end_ts <= y.end_ts }

\* ORDER BY ended_ts DESC LIMIT n
orderByEndedTsDescLimit(rows, n) ==
  { b \in SUBSET rows : /\ Cardinality(b) = Min(Cardinality(rows), n)
                        /\ \A x \in b, y \in rows \ b : x.ended_ts >= y.ended_ts }

\* finalizeEnded, lines 310-334: the sale row written for an auction row
toSale(r) ==
  LET key == canonicalItemKey(r.item_name) IN
  [uuid |-> r.uuid,
   item_name |-> r.item_name,
   item_key |-> IF r.item_key # Null /\ r.item_key # "" THEN r.item_key
                ELSE IF key # "" THEN key ELSE Null,
   bin |-> r.bin,
   final_price |-> IF r.bin THEN r.starting_bid ELSE r.highest_bid,
   ended_ts |-> r.end_ts,
   tier |-> r.tier,
   signature |-> IF ~sigIsEmpty(r.signature) THEN r.signature
                 ELSE safeBuildSignature(r.item_name,
                                         IF r.item_lore = Null THEN "" ELSE r.item_lore,
                                         IF r.tier = Null THEN "" ELSE r.tier,
                                         IF r.item_bytes = Null THEN "" ELSE r.item_bytes),
   item_lore |-> r.item_lore,
   item_bytes |-> r.item_bytes]

\* ON CONFLICT (uuid) DO UPDATE SET ... of the sales upsert
mergeSale(old, inc) ==
  [old EXCEPT !.item_name = inc.item_name,
              !.item_key = inc.item_key,
              !.bin = inc.bin,
              !.final_price = inc.final_price,
              !.ended_ts = inc.ended_ts,
              !.tier = inc.tier,
              !.signature = mergeSignature(old.signature, inc.signature)]

\* INSERT INTO sales ... ON CONFLICT (uuid) DO UPDATE, for the rows of a batch
upsertSales(salesT, batch) ==
  { s \in salesT : ~hasRow(batch, s.uuid) }
    \cup { IF hasRow(salesT, r.uuid) THEN mergeSale(rowOf(salesT, r.uuid), toSale(r))
           ELSE toSale(r) : r \in batch }

\* mutant of markEnded: the promoted auction rows are deleted
markEnded_DeletesPromoted(auctionsT, batch) ==
  { r \in auctionsT : ~hasRow(batch, r.uuid) }

\* UPDATE auctions SET is_ended = true WHERE uuid=$1, for the rows of a batch
markEnded(auctionsT, batch) ==
  { IF hasRow(batch, r.uuid) THEN [r EXCEPT !.is_ended = TRUE] ELSE r : r \in auctionsT }

\* backfillSalesItemKeys: the sales after the committed transaction, for the
\* batch the SELECT returned
backfillSalesItemKeys(salesT, batch) ==
  { IF s \in batch /\ canonicalItemKey(s.item_name) # ""
    THEN [s EXCEPT !.item_key = canonicalItemKey(s.item_name)] ELSE s : s \in salesT }

missingItemKey(salesT) == { s \in salesT : s.item_key = Null \/ s.item_key = "" }

(***************************************************************************)
(* State.                                                                  *)
(***************************************************************************)
VARIABLES
  auctions,      \* the auctions table
  sales,         \* the sales table
  clock,         \* Date.now()
  pc,            \* where main() is: idle, fetch, mark, finalize, backfill, wait, stopped
  running,       \* the no-overlap guard
  shuttingDown,  \* set by the signal handler
  exited,        \* process.exit was called
  now,           \* syncOnce: the cycle's timestamp
  totalPages,    \* syncOnce: pages of this cycle
  p,             \* syncOnce: the page being fetched or upserted
  tries,         \* fetchJson: failed attempts of the current fetch
  slept,         \* fetchJson: milliseconds of the sleep after the last failed attempt
  i,             \* syncOnce: finalize calls made in this cycle
  cycles,        \* cycles started
  inflight,      \* history: calls of syncOnce that have not returned or thrown
  steps,         \* history: the store operations completed in this cycle, in order
  start,         \* history: the tables when this cycle started
  outcome,       \* history: how the latest cycle ended
  sighted,       \* history: for each uuid, the row of its latest upsert
  repeats,       \* history: the uuids whose latest upsert carried that same row again
  capElapsed,    \* shutdown: Date.now() - start reached 20 s while the cycle ran
  poolEnded,     \* shutdown: pool.end() was awaited
  call           \* a call of a function of parseLore.js or server.js: its arguments
                 \* and, once it has returned, its result

\* no function call is followed
NoCall == [fn |-> "none"]

vars == << auctions, sales, clock, pc, running, shuttingDown, exited, now, totalPages,
           p, tries, slept, i, cycles, inflight, steps, start, outcome, sighted, repeats,
           capElapsed, poolEnded, call >>

store == << auctions, sales >>
cycleVars == << now, totalPages, p, tries, slept, i >>
signalVars == << shuttingDown, exited, capElapsed, poolEnded >>
sightings == << sighted, repeats >>

Step(op, page) == [op |-> op, page |-> page]

\* the process at boot, whatever the tables hold
ProcessInit ==
  /\ clock = BootTime
  /\ pc = "idle"
  /\ running = FALSE
  /\ shuttingDown = FALSE
  /\ exited = FALSE
  /\ now = 0
  /\ totalPages = 1
  /\ p = 0
  /\ tries = 0
  /\ slept = 0
  /\ i = 0
  /\ cycles = 0
  /\ inflight = 0
  /\ steps = << >>
  /\ start = [auctions |-> {}, sales |-> {}]
  /\ outcome = "none"
  /\ sighted = {}
  /\ repeats = {}
  /\ capElapsed = FALSE
  /\ poolEnded = FALSE

\* the first boot: both tables are empty
IngestInit ==
  /\ auctions = {}
  /\ sales = {}
  /\ ProcessInit

\* the ingest process at boot; no function call is followed
Init == IngestInit /\ call = NoCall

(***************************************************************************)
(* main(): the forever loop.                                               *)
(***************************************************************************)
\* while (!shuttingDown) { if (running) ...; running = true; ... syncOnce()
\* up to its first await: now = Date.now(), fetchPage(0)
StartCycle ==
  /\ pc = "idle" /\ ~exited /\ ~shuttingDown
  /\ ~running
  /\ cycles < MaxCycles
  /\ running' = TRUE
  /\ now' = clock
  /\ p' = 0 /\ tries' = 0 /\ slept' = 0 /\ i' = 0
  /\ pc' = "fetch"
  /\ cycles' = cycles + 1
  /\ inflight' = inflight + 1
  /\ steps' = << >>
  /\ start' = [auctions |-> auctions, sales |-> sales]
  /\ outcome' = "running"
  /\ UNCHANGED << store, clock, totalPages, signalVars, sightings >>
  /\ UNCHANGED call


\* mutant of Throw: the unseen-mark runs on the error path as well
Throw_MarksUnseen(kind) ==
  /\ running' = FALSE
  /\ inflight' = inflight - 1
  /\ pc' = "wait"
  /\ outcome' = kind
  /\ tries' = 0 /\ slept' = 0 /\ i' = 0
  /\ auctions' = markNotSeenInSnapshotAsEnded(auctions, now)
  /\ UNCHANGED << sales, clock, now, totalPages, p, cycles, steps, start, signalVars,
                  sightings >>
  /\ UNCHANGED call

\* mutant of Throw: no finally block, the guard stays set
Throw_LeavesGuardSet(kind) ==
  /\ inflight' = inflight - 1
  /\ pc' = "wait"
  /\ outcome' = kind
  /\ tries' = 0 /\ slept' = 0 /\ i' = 0
  /\ UNCHANGED << store, clock, running, now, totalPages, p, cycles, steps, start,
                  signalVars, sightings >>
  /\ UNCHANGED call

\* mutant of Throw: the error is not caught in the loop and reaches
\* main().catch, which exits the process
Throw_ExitsProcess(kind) ==
  /\ running' = FALSE
  /\ inflight' = inflight - 1
  /\ pc' = "stopped"
  /\ outcome' = kind
  /\ tries' = 0 /\ slept' = 0 /\ i' = 0
  /\ exited' = TRUE
  /\ UNCHANGED << store, clock, now, totalPages, p, cycles, steps, start, shuttingDown,
                  capElapsed, poolEnded, sightings >>
  /\ UNCHANGED call

\* syncOnce() throws: catch (err) { log } finally { running = false }
Throw(kind) ==
  /\ running' = FALSE
  /\ inflight' = inflight - 1
  /\ pc' = "wait"
  /\ outcome' = kind
  /\ tries' = 0 /\ slept' = 0 /\ i' = 0
  /\ UNCHANGED << store, clock, now, totalPages, p, cycles, steps, start, signalVars,
                  sightings >>
  /\ UNCHANGED call

\* mutant of backoffMs: every wait is the first one
backoffMs_Constant(attempt) == 250

\* await sleep(250 + i * 350)
backoffMs(attempt) == 250 + attempt * 350

\* fetchJson: an attempt fails (network error or HTTP status), then sleeps
FetchAttemptFails ==
  /\ pc = "fetch" /\ ~exited
  /\ tries < FETCH_TRIES
  /\ tries' = tries + 1
  /\ slept' = backoffMs(tries)
  /\ UNCHANGED << store, clock, pc, running, now, totalPages, p, i, cycles,
                  inflight, steps, start, outcome, signalVars, sightings >>
  /\ UNCHANGED call


\* mutant of FetchGivesUp: the failed page is skipped and the cycle goes on
FetchGivesUp_SkipsPage ==
  /\ pc = "fetch" /\ ~exited
  /\ tries = FETCH_TRIES
  /\ p' = p + 1
  /\ tries' = 0 /\ slept' = 0
  /\ pc' = IF p + 1 < totalPages THEN "fetch" ELSE "mark"
  /\ UNCHANGED << store, clock, running, now, totalPages, i, cycles, inflight, steps,
                  start, outcome, signalVars, sightings >>
  /\ UNCHANGED call

\* fetchJson: all tries failed, throw lastErr
FetchGivesUp ==
  /\ pc = "fetch" /\ ~exited
  /\ tries = FETCH_TRIES
  /\ Throw("fetch_failed")

\* fetchPage: the response says success: false
FetchApiError ==
  /\ pc = "fetch" /\ ~exited
  /\ tries < FETCH_TRIES
  /\ Throw("api_error")

\* totalPages of the cycle, from the totalPages of the response to page 0
pagesOf(reported) ==
  Min(Max(1, IF reported = 0 THEN 1 ELSE reported), MAX_PAGES_HARD_CAP)

\* fetchPage(p) returns a response (its auctions and its totalPages) and
\* upsertAuctionsBulk commits the page; page 0 sets totalPages; then the page
\* loop goes on or ends
UpsertPage ==
  /\ pc = "fetch" /\ ~exited
  /\ tries < FETCH_TRIES
  /\ \E l \in Pages :
       LET rows == pageRows(l, now) IN
       /\ auctions' = upsertAuctionsBulk(auctions, l, now)
       /\ sighted' = { x \in sighted : ~hasRow(rows, x.uuid) } \cup rows
       /\ repeats' = { x.uuid : x \in rows \cap sighted }
  /\ \E reported \in 0..MaxTotalPages :
       totalPages' = IF p = 0 THEN pagesOf(reported) ELSE totalPages
  /\ steps' = Append(steps, Step("upsert", p))
  /\ p' = p + 1
  /\ tries' = 0 /\ slept' = 0
  /\ pc' = IF p + 1 < totalPages' THEN "fetch" ELSE "mark"
  /\ UNCHANGED << sales, clock, running, now, i, cycles, inflight, start,
                  outcome, signalVars >>
  /\ UNCHANGED call

\* mutant of DbFails: no ROLLBACK, the sale rows a failed finalizeEnded had
\* written before the failing statement stay
DbFails_NoRollback ==
  /\ ~exited
  /\ \/ pc = "fetch" /\ tries < FETCH_TRIES
     \/ pc \in {"mark", "finalize", "backfill"}
  /\ \E batch \in orderByEndTsLimit(finalizeCandidates(auctions, sales, now), FINALIZE_BATCH) :
       \E done \in SUBSET batch :
         sales' = IF pc = "finalize" THEN upsertSales(sales, done) ELSE sales
  /\ running' = FALSE
  /\ inflight' = inflight - 1
  /\ pc' = "wait"
  /\ outcome' = "db_error"
  /\ tries' = 0 /\ slept' = 0 /\ i' = 0
  /\ UNCHANGED << auctions, clock, now, totalPages, p, cycles, steps, start, signalVars,
                  sightings >>
  /\ UNCHANGED call

\* a statement or the connection fails (in the upsert of the fetched page, in
\* the unseen-mark, in finalizeEnded or in the backfill): ROLLBACK, throw
DbFails ==
  /\ ~exited
  /\ \/ pc = "fetch" /\ tries < FETCH_TRIES
     \/ pc \in {"mark", "finalize", "backfill"}
  /\ Throw("db_error")


\* mutant of MarkUnseen: the mark does not wait for the page loop to end
MarkUnseen_NotAwaited ==
  /\ pc \in {"fetch", "mark"} /\ ~exited
  /\ p >= 1
  /\ \A k \in 1..Len(steps) : steps[k].op # "mark"
  /\ auctions' = markNotSeenInSnapshotAsEnded(auctions, now)
  /\ steps' = Append(steps, [op |-> "mark", page |-> p])
  /\ i' = 0
  /\ pc' = IF pc = "mark" THEN "finalize" ELSE pc
  /\ UNCHANGED << sales, clock, running, now, totalPages, p, tries, slept, cycles,
                  inflight, start, outcome, signalVars, sightings >>
  /\ UNCHANGED call

\* markNotSeenInSnapshotAsEnded(now)
MarkUnseen ==
  /\ pc = "mark" /\ ~exited
  /\ auctions' = markNotSeenInSnapshotAsEnded(auctions, now)
  /\ steps' = Append(steps, Step("mark", p))
  /\ i' = 0
  /\ pc' = "finalize"
  /\ UNCHANGED << sales, clock, running, now, totalPages, p, tries, slept, cycles,
                  inflight, start, outcome, signalVars, sightings >>
  /\ UNCHANGED call

\* one iteration of the finalize loop: n = await finalizeEnded(now)
Finalize ==
  /\ pc = "finalize" /\ ~exited
  /\ i < FINALIZE_MAX_LOOPS
  /\ \E batch \in orderByEndTsLimit(finalizeCandidates(auctions, sales, now), FINALIZE_BATCH) :
       /\ sales' = upsertSales(sales, batch)
       /\ auctions' = markEnded(auctions, batch)
       /\ i' = i + 1
       /\ pc' = IF batch = {} \/ i + 1 >= FINALIZE_MAX_LOOPS THEN "backfill" ELSE "finalize"
  /\ steps' = Append(steps, Step("finalize", i))
  /\ UNCHANGED << clock, running, now, totalPages, p, tries, slept, cycles, inflight,
                  start, outcome, signalVars, sightings >>
  /\ UNCHANGED call

\* backfillSalesItemKeys, then syncOnce returns: finally { running = false }
Backfill ==
  /\ pc = "backfill" /\ ~exited
  /\ \E batch \in orderByEndedTsDescLimit(missingItemKey(sales), SALES_KEY_BACKFILL_BATCH) :
       sales' = backfillSalesItemKeys(sales, batch)
  /\ steps' = Append(steps, Step("backfill", 0))
  /\ running' = FALSE
  /\ inflight' = inflight - 1
  /\ outcome' = "ok"
  /\ pc' = "wait"
  /\ tries' = 0 /\ slept' = 0 /\ i' = 0
  /\ UNCHANGED << auctions, clock, now, totalPages, p, cycles, start, signalVars, sightings >>
  /\ UNCHANGED call

\* the wait until the next cycle: LOOP_EVERY_MS in steps of 2 s.  The clock is
\* read at the start of a cycle only, so the time the cycle itself took is
\* added here.
WaitNext ==
  /\ pc = "wait" /\ ~exited /\ ~shuttingDown
  /\ cycles < MaxCycles
  /\ \E took \in {0, PER_SYNC_GRACE_MS} : clock' = clock + took + LOOP_EVERY_MS
  /\ pc' = "idle"
  /\ UNCHANGED << store, running, cycleVars, cycles, inflight, steps, start, outcome,
                  signalVars, sightings >>
  /\ UNCHANGED call

\* the wait and the while loop end once shuttingDown is set
MainStops ==
  /\ pc \in {"idle", "wait"} /\ ~exited /\ shuttingDown
  /\ pc' = "stopped"
  /\ UNCHANGED << store, clock, running, cycleVars, cycles, inflight, steps, start,
                  outcome, signalVars, sightings >>
  /\ UNCHANGED call

(***************************************************************************)
(* shutdown(signal)                                                        *)
(***************************************************************************)
\* SIGTERM or SIGINT arrives: shuttingDown = true
Signal ==
  /\ ~shuttingDown /\ ~exited
  /\ shuttingDown' = TRUE
  /\ UNCHANGED << store, clock, pc, running, cycleVars, cycles, inflight, steps, start,
                  outcome, exited, capElapsed, poolEnded, sightings >>
  /\ UNCHANGED call

\* while (running && Date.now() - start < 20_000): the cycle is still running
\* when the 20 s are over
ShutdownCapElapses ==
  /\ shuttingDown /\ ~exited
  /\ running /\ ~capElapsed
  /\ capElapsed' = TRUE
  /\ UNCHANGED << store, clock, pc, running, cycleVars, cycles, inflight, steps, start,
                  outcome, shuttingDown, exited, poolEnded, sightings >>
  /\ UNCHANGED call

\* mutant of ShutdownExits: the wait loop is missing, the pool is ended and
\* the process exits as soon as the signal is handled
ShutdownExits_DoesNotWait ==
  /\ shuttingDown /\ ~exited
  /\ exited' = TRUE
  /\ poolEnded' = TRUE
  /\ now' = 0 /\ totalPages' = 1 /\ p' = 0 /\ tries' = 0 /\ slept' = 0 /\ i' = 0
  /\ steps' = << >>
  /\ start' = [auctions |-> {}, sales |-> {}]
  /\ outcome' = "exited"
  /\ sighted' = {}
  /\ repeats' = {}
  /\ UNCHANGED << store, clock, pc, running, cycles, inflight, shuttingDown, capElapsed >>
  /\ UNCHANGED call

\* the cycle ended or the 20 s ran out: pool.end(), process.exit(0).  The
\* tables outlive the process; its locals and the history of its cycle do not.
ShutdownExits ==
  /\ shuttingDown /\ ~exited
  /\ ~running \/ capElapsed
  /\ exited' = TRUE
  /\ poolEnded' = TRUE
  /\ now' = 0 /\ totalPages' = 1 /\ p' = 0 /\ tries' = 0 /\ slept' = 0 /\ i' = 0
  /\ steps' = << >>
  /\ start' = [auctions |-> {}, sales |-> {}]
  /\ outcome' = "exited"
  /\ sighted' = {}
  /\ repeats' = {}
  /\ UNCHANGED << store, clock, pc, running, cycles, inflight, shuttingDown, capElapsed >>
  /\ UNCHANGED call

Next ==
  \/ StartCycle
  \/ FetchAttemptFails
  \/ FetchGivesUp
  \/ FetchApiError
  \/ UpsertPage
  \/ DbFails
  \/ MarkUnseen
  \/ Finalize
  \/ Backfill
  \/ WaitNext
  \/ MainStops
  \/ Signal
  \/ ShutdownCapElapses
  \/ ShutdownExits

Spec == Init /\ [][Next]_vars

(***************************************************************************)
(* Properties.                                                             *)
(***************************************************************************)
lastStep == IF steps = << >> THEN Step("none", 0) ELSE steps[Len(steps)]
did(op) == { k \in 1..Len(steps) : steps[k].op = op }
upsertedBefore(k) == { steps[j].page : j \in { x \in 1..(k - 1) : steps[x].op = "upsert" } }

\* C1: the unseen-mark of a cycle is executed only after page 0 and every
\* page up to totalPages were fetched and upserted in that cycle, and never
\* in a cycle in which a page fetch failed.
C1_UnseenMarkNeedsFullSnapshot ==
  /\ \A k \in did("mark") : \A q \in 0..(totalPages - 1) : q \in upsertedBefore(k)
  /\ outcome \in {"fetch_failed", "api_error"} => did("mark") = {}

\* a two-page cycle has marked a row of the previous cycle ended by absence
C1_Witness ==
  /\ did("mark") # {}
  /\ totalPages = 2
  /\ \E r \in auctions : r.is_ended /\ r.last_seen_ts < now /\ ~hasRow(sales, r.uuid)

\* C2 as claimed: after a cycle aborted by a failed page fetch both tables are
\* what they were when the cycle started, whichever page failed.
C2_NothingWrittenOnFetchFailure ==
  outcome = "fetch_failed" => auctions = start.auctions /\ sales = start.sales

\* C2 amended: after a cycle aborted by a failed page fetch the sales table is
\* what it was when the cycle started, no auction row was removed or marked
\* ended, and an auction row differs from the start of the cycle only if a
\* page upserted before the failing one carried it; if page 0 failed, nothing
\* was written.
C2_OnlyEarlierPagesWritten ==
  outcome = "fetch_failed" =>
    /\ sales = start.sales
    /\ did("mark") = {} /\ did("finalize") = {} /\ did("backfill") = {}
    /\ p = 0 => auctions = start.auctions
    /\ \A r \in start.auctions :
         /\ hasRow(auctions, r.uuid)
         /\ r \in auctions \/ (hasRow(sighted, r.uuid) /\ rowOf(sighted, r.uuid).last_seen_ts = now)
    /\ \A r \in auctions :
         r \in start.auctions
         \/ /\ r.last_seen_ts = now /\ ~r.is_ended
            /\ hasRow(sighted, r.uuid) /\ rowOf(sighted, r.uuid).last_seen_ts = now
            /\ p > 0

\* page 1 failed after page 0 had been upserted over rows of an earlier cycle
C2_Witness ==
  /\ outcome = "fetch_failed" /\ p = 1 /\ cycles = 2
  /\ auctions # start.auctions
  /\ sales # {}

\* C3: in a cycle the unseen-mark comes after the upsert of every page, the
\* finalize calls come after the unseen-mark, and no page is upserted after
\* the unseen-mark.
C3_UpsertsThenMarkThenFinalize ==
  /\ \A k \in did("mark") :
       /\ \A q \in 0..(totalPages - 1) : q \in upsertedBefore(k)
       /\ \A j \in did("upsert") : j < k
  /\ \A k \in did("finalize") : \E m \in did("mark") : m < k
  /\ Cardinality(did("mark")) <= 1

\* two pages upserted, then the mark, then two finalize calls
C3_Witness ==
  /\ Len(steps) >= 5
  /\ steps[1] = Step("upsert", 0) /\ steps[2] = Step("upsert", 1)
  /\ steps[3].op = "mark" /\ steps[4].op = "finalize" /\ steps[5].op = "finalize"

\* C4: at most one cycle is in flight; the guard is true exactly while a
\* cycle is in flight (so a cycle starts only with the guard false, and the
\* guard is cleared when the cycle returns or throws).
C4_NoOverlap ==
  /\ inflight \in {0, 1}
  /\ inflight = 1 <=> running
  /\ running <=> pc \in {"fetch", "mark", "finalize", "backfill"}

\* the second cycle is in flight, after the first one threw
C4_Witness == cycles = 2 /\ running /\ inflight = 1 /\ start.auctions # {}

\* C5: right after the unseen-mark of a cycle no auction row last seen before
\* now - grace is still live.
C5_UnseenAreEnded ==
  lastStep.op = "mark" =>
    \A r \in auctions : r.last_seen_ts < now - PER_SYNC_GRACE_MS => r.is_ended

\* the mark has just ended a row that no finalize call could have ended
C5_Witness ==
  /\ lastStep.op = "mark"
  /\ \E r \in auctions : r.last_seen_ts < now - PER_SYNC_GRACE_MS /\ r.is_ended /\ r.end_ts = 0

\* the step taken is the commit of a page upsert / a finalize call
isUpsertStep == Len(steps') = Len(steps) + 1 /\ steps'[Len(steps')].op = "upsert"
isFinalizeStep == Len(steps') = Len(steps) + 1 /\ steps'[Len(steps')].op = "finalize"

\* the rows the page upsert just taken carried: the sightings that are new
\* and the ones that repeat the previous sighting of their uuid
incomingRows ==
  IF isUpsertStep THEN (sighted' \ sighted) \cup { x \in sighted' : x.uuid \in repeats' }
  ELSE {}

\* C6 as claimed: a finalize call leaves every existing sale row as it is and
\* adds no second row for its uuid.
C6_PromotionExactlyOnce ==
  [][ isFinalizeStep =>
        \A s \in sales : s \in sales' /\ Cardinality({ t \in sales' : t.uuid = s.uuid }) = 1
    ]_vars

\* the value of the stars10: token of a signature, "" if it has none
stars10Of(sig) ==
  IF sig.isNull \/ ~\E n \in 1..Len(sig.toks) : sig.toks[n].key = "stars10" THEN ""
  ELSE sig.toks[CHOOSE n \in 1..Len(sig.toks) : sig.toks[n].key = "stars10"].val

\* the signature the merge rule of the specification stores
claimedSignature(existing, incoming) ==
  IF \/ sigIsEmpty(existing)
     \/ ~sigHasPetItem(existing) /\ sigHasPetItem(incoming)
     \/ /\ stars10Of(existing) # "" /\ stars10Of(incoming) # ""
        /\ stars10Of(existing) # stars10Of(incoming)
  THEN incoming ELSE existing

\* C7 as claimed: an upsert over an existing auctions or sales row stores the
\* existing signature unless it is empty, or the incoming one brings a
\* pet_item: token, or the two disagree on stars10:, and then the incoming one.
C7_SignatureMergeRule ==
  [][ /\ \A inc \in incomingRows : hasRow(auctions, inc.uuid) =>
           rowOf(auctions', inc.uuid).signature
             = claimedSignature(rowOf(auctions, inc.uuid).signature, inc.signature)
      /\ isFinalizeStep =>
           \A r \in finalizeCandidates(auctions, sales, now) :
             (hasRow(sales, r.uuid) /\ rowOf(auctions', r.uuid).is_ended) =>
               rowOf(sales', r.uuid).signature
                 = claimedSignature(rowOf(sales, r.uuid).signature, toSale(r).signature)
    ]_vars

\* C8: a page upsert leaves every auction of the page that already had a row
\* with is_ended = false.
C8_SightingResurrects ==
  [][ \A inc \in incomingRows : hasRow(auctions, inc.uuid) =>
        hasRow(auctions', inc.uuid) /\ ~rowOf(auctions', inc.uuid).is_ended
    ]_vars

\* an auction promoted to a sale in the first cycle is live again in the second
C8_Witness ==
  /\ cycles = 2 /\ pc \in {"fetch", "mark"}
  /\ \E r \in auctions : /\ ~r.is_ended /\ r.last_seen_ts = now
                         /\ hasRow(sales, r.uuid)
                         /\ \E o \in start.auctions : o.uuid = r.uuid /\ o.is_ended

noDuplicateUuid == \A x, y \in auctions : x.uuid = y.uuid => x = y

replaced(r) ==
  << r.uuid, r.item_name, r.item_key, r.bin, r.start_ts, r.end_ts, r.starting_bid,
     r.highest_bid, r.tier, r.last_seen_ts >>

C10_ReapplicationChangesNothing ==
  /\ [](pc = "fetch" =>
          \A l \in Pages :
            LET once == upsertAuctionsBulk(auctions, l, now)
                twice == upsertAuctionsBulk(once, l, now)
            IN  twice = once /\ upsertAuctionsBulk(twice, l, now) = once)
  /\ [][ isUpsertStep =>
           \A u \in repeats' : hasRow(auctions, u) /\ rowOf(auctions', u) = rowOf(auctions, u)
       ]_vars

\* in the second cycle a page carried again the row that had, one page
\* earlier, resurrected a promoted auction
C10_Witness ==
  /\ cycles = 2 /\ Len(steps) = 2
  /\ \E u \in repeats : hasRow(sales, u) /\ ~rowOf(auctions, u).is_ended

\* the step taken is a cycle failing on a database error
isDbFailure == outcome = "running" /\ outcome' = "db_error"

buildFailed(inc) ==
  /\ inc.bin \/ inc.item_lore # Null \/ inc.item_bytes # Null
  /\ buildSignatureThrows(inc.item_name, coalesce(inc.item_lore, ""), coalesce(inc.tier, ""),
                          coalesce(inc.item_bytes, ""))

\* C12: when the signature build of an auction of a page throws, the failure
\* is logged, the incoming signature of its row is null, the row and every
\* other row of the page are written by the page's upsert, and the cycle goes
\* on.
C12_SignatureFailureKeepsRow ==
  [][ \A inc \in incomingRows : buildFailed(inc) =>
        /\ safeBuildSignatureLog(inc.item_name, coalesce(inc.item_lore, ""),
                                 coalesce(inc.tier, ""), coalesce(inc.item_bytes, "")) # << >>
        /\ inc.signature = NullSig
        /\ ~hasRow(auctions, inc.uuid) => rowOf(auctions', inc.uuid).signature = NullSig
        /\ \A row \in incomingRows :
             /\ hasRow(auctions', row.uuid)
             /\ replaced(rowOf(auctions', row.uuid)) = replaced(row)
        /\ outcome' = "running" /\ pc' \in {"fetch", "mark"}
    ]_vars

\* a page with an auction whose signature build threw was upserted: its row
\* is stored without a signature, next to the other row of the page
C12_Witness ==
  /\ lastStep.op = "upsert" /\ outcome = "running"
  /\ \E r \in auctions : /\ buildFailed(r) /\ r.signature = NullSig /\ r.last_seen_ts = now
                         /\ \E o \in auctions : /\ o.uuid # r.uuid /\ o.last_seen_ts = now
                                                /\ o.signature # NullSig

\* the uuids of a table
uuidsOf(table) == { r.uuid : r \in table }

\* what C13 says of a finalize call, for the auction rows marked ended that
\* are in the set due
promotedAndKept(due) ==
  isFinalizeStep =>
    /\ \A r \in due : /\ hasRow(sales', r.uuid)
                      /\ hasRow(auctions', r.uuid) /\ rowOf(auctions', r.uuid).is_ended
    /\ uuidsOf(auctions') = uuidsOf(auctions)
    /\ \A s \in sales' \ sales :
         hasRow(auctions', s.uuid) /\ rowOf(auctions', s.uuid).is_ended

\* C13 as claimed: a finalize call leaves every auction that is marked ended
\* and has end_ts <= now with a sale row, and leaves the rows it promotes in
\* the auctions table with is_ended = true.
C13_EndedPromotedAndKept ==
  [][ promotedAndKept({ r \in auctions : r.is_ended /\ r.end_ts <= now }) ]_vars

\* C13 amended: a finalize call leaves every auction that is marked ended and
\* has 0 < end_ts <= now with a sale row, and leaves the rows it promotes in
\* the auctions table with is_ended = true.
C13_EndedWithEndTsPromotedAndKept ==
  [][ promotedAndKept({ r \in auctions : r.is_ended /\ r.end_ts > 0 /\ r.end_ts <= now }) ]_vars

\* an auction last seen in the first cycle was marked ended in the second and
\* promoted by its finalize call; its row is still there, ended
C13_Witness ==
  /\ cycles = 2 /\ lastStep.op = "finalize"
  /\ \E r \in auctions : /\ r.is_ended /\ r.last_seen_ts < now /\ r.end_ts > 0
                         /\ hasRow(sales, r.uuid) /\ ~hasRow(start.sales, r.uuid)

\* C14: the process exits only after a signal, with no cycle in flight or with
\* the 20 s of the wait over, and with the pool ended; from the signal on no
\* new cycle is started, and until the exit the cycle in flight is left to
\* take its steps.
C14_ShutdownWaitsForCycle ==
  /\ [](exited => shuttingDown /\ poolEnded /\ (~running \/ capElapsed))
  /\ [](poolEnded => exited)
  /\ [][ shuttingDown => cycles' = cycles ]_vars
  /\ [][ (shuttingDown /\ running /\ ~capElapsed) => ~exited' ]_vars

\* the process exited with the pool ended, after a cycle that promoted sales
\* had finished and without the 20 s of the wait running out
C14_Witness ==
  /\ exited /\ poolEnded /\ ~capElapsed /\ ~running
  /\ pc = "wait" /\ sales # {}

\* the ways a cycle fails
cycleErrors == {"fetch_failed", "api_error", "db_error"}

\* C15: an error that fails a cycle is caught by the loop (the cycle's outcome
\* is the logged error), the process does not exit on it, the guard is cleared
\* and the loop goes to its wait; the wait lasts at least the inter-cycle
\* interval; the cycle started after it begins at page 0 with no step done.
C15_FailedCycleIsRetried ==
  /\ [][ (outcome = "running" /\ outcome' \in cycleErrors) =>
           /\ exited' = exited /\ ~exited'
           /\ pc' = "wait" /\ ~running'
       ]_vars
  /\ [][ (pc = "wait" /\ pc' = "idle") => clock' >= clock + LOOP_EVERY_MS ]_vars
  /\ [][ (pc = "idle" /\ pc' # "idle" /\ ~shuttingDown) =>
           /\ pc' = "fetch" /\ p' = 0 /\ tries' = 0 /\ steps' = << >>
           /\ now' = clock /\ running'
       ]_vars

\* the second cycle is at page 0 after a first cycle that failed: an auction
\* it had upserted was due for promotion and is neither ended nor a sale
C15_Witness ==
  /\ cycles = 2 /\ running /\ pc = "fetch" /\ p = 0 /\ steps = << >>
  /\ now >= BootTime + LOOP_EVERY_MS
  /\ \E r \in start.auctions : ~r.is_ended /\ r.end_ts > 0 /\ r.end_ts <= BootTime
  /\ start.sales = {}

(***************************************************************************)
(* parseLore.js: the stars of a signature.  The repository holds two       *)
(* versions of extractStars and buildSignature: src/parseLore.js and       *)
(* src/unnamed/part_004.  The levels are the numbers read from             *)
(* ExtraAttributes (0 when absent); fromName and fromLore are the results  *)
(* of coflnetStars10FromText on the item name and on the lore, 0..10.      *)
(***************************************************************************)
MaxLevel == 11
MaxTextStars == 10

\* clampInt(n, lo, hi) on an integer
clampInt(n, lo, hi) == Max(lo, Min(hi, n))

totalToSplit(total10) ==
  LET t == clampInt(total10, 0, 10)
  IN  IF t <= 0 THEN [dstars |-> 0, mstars |-> 0]
      ELSE IF t <= 5 THEN [dstars |-> t, mstars |-> 0]
      ELSE [dstars |-> 5, mstars |-> t - 5]

\* split.mstars > 0 && split.dstars !== 5 => split.dstars = 5
forceDungeonStars(split) ==
  IF split.mstars > 0 /\ split.dstars # 5 THEN [split EXCEPT !.dstars = 5] ELSE split

\* src/parseLore.js, extractStars
extractStars(dungeon_item_level, upgrade_level, fromName, fromLore) ==
  LET d10 == clampInt(dungeon_item_level, 0, 10)
      u10 == clampInt(upgrade_level, 0, 10)
      total == Max(fromName, fromLore)
  IN  IF d10 > 5 THEN [dstars |-> 5, mstars |-> d10 - 5]
      ELSE IF u10 > 5 THEN [dstars |-> 5, mstars |-> u10 - 5]
      ELSE IF d10 > 0 /\ u10 > 0
        THEN forceDungeonStars([dstars |-> clampInt(d10, 0, 5), mstars |-> clampInt(u10, 0, 5)])
      ELSE IF d10 > 0 THEN [dstars |-> clampInt(d10, 0, 5), mstars |-> 0]
      ELSE IF u10 > 0
        THEN IF total > 5 THEN forceDungeonStars(totalToSplit(total))
             ELSE [dstars |-> clampInt(u10, 0, 5), mstars |-> 0]
      ELSE forceDungeonStars(totalToSplit(total))

\* the star tokens of a signature: a token is pushed when its number is not 0
starTokens(dst, mst, stars10) ==
     (IF dst # 0 THEN << Tok("dstars", dst) >> ELSE << >>)
  \o (IF mst # 0 THEN << Tok("mstars", mst) >> ELSE << >>)
  \o (IF stars10 # 0 THEN << Tok("stars10", stars10) >> ELSE << >>)

\* src/parseLore.js, buildSignature, lines 743-753
signatureStars(stars) ==
  LET mst == clampInt(stars.mstars, 0, 5)
      dst == IF mst > 0 /\ clampInt(stars.dstars, 0, 5) # 5 THEN 5
             ELSE clampInt(stars.dstars, 0, 5)
  IN  starTokens(dst, mst, clampInt(dst + mst, 0, 10))

\* src/unnamed/part_004, extractStars
extractStars_part004(dungeon_item_level, upgrade_level, fromName, fromLore) ==
  LET d10 == Max(0, Min(10, dungeon_item_level))
      u10 == Max(0, Min(10, upgrade_level))
      total == Max(fromName, fromLore)
  IN  IF d10 > 5 THEN [dstars |-> 5, mstars |-> Max(0, Min(5, d10 - 5))]
      ELSE IF u10 > 5 THEN [dstars |-> 5, mstars |-> Max(0, Min(5, u10 - 5))]
      ELSE IF d10 > 0 /\ u10 > 0
        THEN [dstars |-> Max(0, Min(5, d10)), mstars |-> Max(0, Min(5, u10))]
      ELSE IF d10 > 0 THEN [dstars |-> Max(0, Min(5, d10)), mstars |-> 0]
      ELSE IF u10 > 0
        THEN IF total >= 5 THEN [dstars |-> 5, mstars |-> Max(0, Min(5, u10))]
             ELSE [dstars |-> Max(0, Min(5, u10)), mstars |-> 0]
      ELSE IF total <= 0 THEN [dstars |-> 0, mstars |-> 0]
      ELSE IF total <= 5 THEN [dstars |-> total, mstars |-> 0]
      ELSE [dstars |-> 5, mstars |-> total - 5]

\* src/unnamed/part_004, buildSignature, lines 644-663
signatureStars_part004(stars) ==
  LET dstars == IF stars.mstars > 0 /\ stars.dstars = 0 THEN 5 ELSE stars.dstars
  IN  starTokens(dstars, stars.mstars, Max(0, Min(10, dstars + stars.mstars)))

\* the inputs of buildSignature that bear on the stars
StarInputs ==
  [fn : {"buildSignature"}, dungeon_item_level : -1..MaxLevel,
   upgrade_level : -1..MaxLevel, fromName : 0..MaxTextStars,
   fromLore : {0, 3, 5, 6, MaxTextStars}, version : {"called"},
   stars : {[dstars |-> 0, mstars |-> 0]}, result : {<< >>}]

StarsInit == IngestInit /\ call \in StarInputs

\* buildSignature of src/parseLore.js returns
BuildSignature ==
  /\ call.fn = "buildSignature" /\ call.version = "called"
  /\ call' = [call EXCEPT
       !.version = "src/parseLore.js",
       !.stars = extractStars(call.dungeon_item_level, call.upgrade_level,
                              call.fromName, call.fromLore),
       !.result = signatureStars(extractStars(call.dungeon_item_level, call.upgrade_level,
                                              call.fromName, call.fromLore))]
  /\ UNCHANGED << store, clock, pc, running, cycleVars, cycles, inflight, steps, start,
                  outcome, signalVars, sightings >>

\* buildSignature of src/unnamed/part_004 returns
BuildSignature_part004 ==
  /\ call.fn = "buildSignature" /\ call.version = "called"
  /\ call' = [call EXCEPT
       !.version = "src/unnamed/part_004",
       !.stars = extractStars_part004(call.dungeon_item_level, call.upgrade_level,
                                      call.fromName, call.fromLore),
       !.result = signatureStars_part004(
                    extractStars_part004(call.dungeon_item_level, call.upgrade_level,
                                         call.fromName, call.fromLore))]
  /\ UNCHANGED << store, clock, pc, running, cycleVars, cycles, inflight, steps, start,
                  outcome, signalVars, sightings >>

StarsNext == BuildSignature \/ BuildSignature_part004

SpecStars == StarsInit /\ [][StarsNext]_vars

\* the number of the token key of a token sequence, 0 when it has none
tokenNumber(toks, key) ==
  IF \E n \in 1..Len(toks) : toks[n].key = key
  THEN toks[CHOOSE n \in 1..Len(toks) : toks[n].key = key].val ELSE 0

\* C16 as claimed: every signature buildSignature returns has dstars = 5 when
\* it has mstars > 0, stars10 = dstars + mstars when it has a star token, and
\* dstars in 0..5, mstars in 0..5, stars10 in 0..10.
C16_StarTokensConsistent ==
  (call.fn = "buildSignature" /\ call.version # "called") =>
    LET dstars == tokenNumber(call.result, "dstars")
        mstars == tokenNumber(call.result, "mstars")
        stars10 == tokenNumber(call.result, "stars10")
    IN  /\ mstars > 0 => dstars = 5
        /\ call.result # << >> => stars10 = dstars + mstars
        /\ dstars \in 0..5 /\ mstars \in 0..5 /\ stars10 \in 0..10

(***************************************************************************)
(* parseLore.js: canonicalItemKey.  A name is a sequence of words, the     *)
(* pieces between its blanks; a key is the sequence of its tokens, which   *)
(* the code joins with one blank.  Both versions are modelled:             *)
(* src/parseLore.js pops trailing numbers, src/unnamed/part_004 does not.  *)
(***************************************************************************)
MaxWords == 4

\* a sample of REFORGE_PREFIXES
REFORGE_PREFIXES == { "heroic", "wise", "fine", "ancient", "giant", "perfect" }

\* the words of the names: a capitalised reforge, a reforge, the pet level
\* prefix, a number, an item word, an item word with a number attached, a
\* run of star glyphs and a bracketed piece
Words == { "Heroic", "wise", "lvl", "100", "sword", "sword5", "***", "(rare)" }

\* /^\d+$/
isDigits(w) == w \in { "100", "5" }

\* s.replace(star glyphs, " "), s.replace(/\(([^)]*)\)/g, " ") and the
\* replacement of every other character that is no letter or digit by cleanText
isRemoved(w) == w \in { "***", "(rare)" }

\* s.replace(/(\p{L})(\d+)/gu, "$1 $2") on one word
splitLetterDigits(w) == IF w = "sword5" THEN << "sword", "5" >> ELSE << w >>

\* toLowerCase on one word
toLowerCase(w) == IF w = "Heroic" THEN "heroic" ELSE w

RECURSIVE tokenize(_)
\* the tokens of a name after the replacements and normKey
tokenize(name) ==
  IF name = << >> THEN << >>
  ELSE LET w == Head(name)
           lower == splitLetterDigits(toLowerCase(w))
       IN  (IF isRemoved(w) THEN << >> ELSE lower) \o tokenize(Tail(name))

\* t[0] is lvl, lv or level and t[1] is a number: t.slice(2)
stripLevelPrefix(t) ==
  IF Len(t) >= 2 /\ t[1] \in { "lvl", "lv", "level" } /\ isDigits(t[2])
  THEN SubSeq(t, 3, Len(t)) ELSE t

\* one round of the loop of stripReforgePrefixTokens
shiftReforge(t) == IF Len(t) > 1 /\ t[1] \in REFORGE_PREFIXES THEN Tail(t) ELSE t

\* the loop runs twice at most and stops at the first miss
stripReforgePrefixTokens(t) == shiftReforge(shiftReforge(t))

RECURSIVE popTrailingDigits(_)
\* while (t.length > 1 && /^\d+$/.test(t[t.length - 1])) t.pop()
popTrailingDigits(t) ==
  IF Len(t) > 1 /\ isDigits(t[Len(t)]) THEN popTrailingDigits(SubSeq(t, 1, Len(t) - 1)) ELSE t

\* src/parseLore.js, canonicalItemKey
canonicalItemKeyOf(name) ==
  popTrailingDigits(stripReforgePrefixTokens(stripLevelPrefix(tokenize(name))))

\* src/unnamed/part_004, canonicalItemKey
canonicalItemKeyOf_part004(name) ==
  stripReforgePrefixTokens(stripLevelPrefix(tokenize(name)))

RECURSIVE SeqsUpTo(_, _)
\* the sequences over S of length n at most
SeqsUpTo(S, n) ==
  IF n = 0 THEN { << >> }
  ELSE LET shorter == SeqsUpTo(S, n - 1)
       IN  shorter \cup { Append(q, w) : q \in shorter, w \in S }

KeyInputs ==
  [fn : {"canonicalItemKey"}, name : SeqsUpTo(Words, MaxWords), version : {"called"},
   result : {<< >>}, again : {<< >>}]

KeyInit == IngestInit /\ call \in KeyInputs

\* canonicalItemKey of src/parseLore.js returns, and is applied to its result
CanonicalItemKey ==
  /\ call.fn = "canonicalItemKey" /\ call.version = "called"
  /\ call' = [call EXCEPT
       !.version = "src/parseLore.js",
       !.result = canonicalItemKeyOf(call.name),
       !.again = canonicalItemKeyOf(canonicalItemKeyOf(call.name))]
  /\ UNCHANGED << store, clock, pc, running, cycleVars, cycles, inflight, steps, start,
                  outcome, signalVars, sightings >>

\* canonicalItemKey of src/unnamed/part_004 returns, and is applied to its result
CanonicalItemKey_part004 ==
  /\ call.fn = "canonicalItemKey" /\ call.version = "called"
  /\ call' = [call EXCEPT
       !.version = "src/unnamed/part_004",
       !.result = canonicalItemKeyOf_part004(call.name),
       !.again = canonicalItemKeyOf_part004(canonicalItemKeyOf_part004(call.name))]
  /\ UNCHANGED << store, clock, pc, running, cycleVars, cycles, inflight, steps, start,
                  outcome, signalVars, sightings >>

KeyNext == CanonicalItemKey \/ CanonicalItemKey_part004

SpecKey == KeyInit /\ [][KeyNext]_vars

\* C17 as claimed: canonicalItemKey applied to a key it returned returns
\* that key.
C17_CanonicalItemKeyIdempotent ==
  (call.fn = "canonicalItemKey" /\ call.version # "called") => call.again = call.result

(***************************************************************************)
(* server.js: the matcher.  A candidate signature is the sequence of its   *)
(* tokens, the empty sequence for the empty string.  The repository holds  *)
(* three versions of strictMatchQuality: the later and the earlier half of *)
(* src/server.js and src/unnamed/part_007.                                 *)
(***************************************************************************)
RESERVED_SIG_KEYS ==
  { "tier", "dstars", "mstars", "stars10", "stars", "wither_impact", "witherimpact",
    "pet_level", "pet_item", "dye", "skin", "petskin" }

\* RESERVED_SIG_KEYS of the earlier half of src/server.js and of part_007
RESERVED_SIG_KEYS_v10 ==
  { "tier", "dstars", "mstars", "wither_impact", "pet_level", "pet_item", "dye", "skin",
    "petskin" }

\* sigGet(sig, key) || absent: the value of the first token of that key
sigGet(sig, key, absent) ==
  IF \E n \in 1..Len(sig) : sig[n].key = key
  THEN sig[CHOOSE n \in 1..Len(sig) :
             sig[n].key = key /\ \A m \in 1..(n - 1) : sig[m].key # key].val
  ELSE absent

sigDungeonStars(sig) == Max(0, Min(5, sigGet(sig, "dstars", 0)))
sigMasterStars(sig) == Max(0, Min(5, sigGet(sig, "mstars", 0)))

\* later half of src/server.js; coflnetStars10FromText finds no star glyph
\* in a signature and gives 0
sigStars10(sig) ==
  IF sigGet(sig, "stars10", 0) > 0 THEN Max(0, Min(10, sigGet(sig, "stars10", 0)))
  ELSE Max(0, Min(10, sigDungeonStars(sig) + sigMasterStars(sig)))

\* earlier half of src/server.js and part_007
sigStars10_v10(sig) == Max(0, Min(10, sigDungeonStars(sig) + sigMasterStars(sig)))

sigWI(sig) == sigGet(sig, "wither_impact", 0) = 1 \/ sigGet(sig, "witherimpact", 0) = 1
sigTier(sig) == sigGet(sig, "tier", "")
sigDye(sig) == sigGet(sig, "dye", "none")
sigSkin(sig) == sigGet(sig, "skin", "none")
sigPetSkin(sig) == sigGet(sig, "petskin", "none")
sigPetLevel(sig) == Max(0, Min(200, sigGet(sig, "pet_level", 0)))
sigPetItem(sig) == sigGet(sig, "pet_item", "none")

\* normalizeEnchantKey on the key of a token: underscores become blanks and
\* a leading "ultimate " is dropped
normalizeEnchantKey(k) ==
  IF k = "ultimate_wise" THEN "wise" ELSE IF k = "giant_killer" THEN "giant killer" ELSE k

\* sigEnchantMap(sig).get(nameKey) || 0: the highest positive level among
\* the tokens that are not reserved and whose key normalises to nameKey
saleLevel(sig, nameKey, reserved) ==
  LET levels == { sig[n].val : n \in { m \in 1..Len(sig) :
                     /\ sig[m].key \notin reserved
                     /\ normalizeEnchantKey(sig[m].key) = nameKey
                     /\ sig[m].val > 0 } }
  IN  IF levels = {} THEN 0 ELSE CHOOSE l \in levels : \A o \in levels : o <= l

\* tierFor, for the enchantments of the model (ENCHANT_TIER_MAP)
tierFor(nameKey, lvl) ==
  IF nameKey = "sharpness" /\ lvl = 7 THEN "AAA"
  ELSE IF nameKey = "sharpness" /\ lvl = 6 THEN "B"
  ELSE IF nameKey = "wise" /\ lvl = 5 THEN "A"
  ELSE IF nameKey = "wise" /\ lvl \in 1..4 THEN "B"
  ELSE "MISC"

tierRank(t) ==
  IF t = "BB" THEN 0 ELSE IF t = "B" THEN 1 ELSE IF t = "A" THEN 2
  ELSE IF t = "AA" THEN 3 ELSE IF t = "AAA" THEN 4 ELSE -1

abs(n) == IF n < 0 THEN -n ELSE n

\* ok of applyVerifiedFiltersOrNull on a signature that is not empty
applyVerifiedFiltersOrNull(sig, filters) ==
  /\ ~(filters.userWI /\ ~sigWI(sig))
  /\ ~(filters.userRarity # "" /\ sigTier(sig) # filters.userRarity)
  /\ ~(filters.userDye \notin {"", "none"} /\ sigDye(sig) # filters.userDye)
  /\ ~(filters.userSkin \notin {"", "none"} /\ sigSkin(sig) # filters.userSkin)
  /\ ~(filters.userPetSkin \notin {"", "none"} /\ sigPetSkin(sig) # filters.userPetSkin)
  /\ ~(filters.userPetLevel > 0 /\ sigPetLevel(sig) < filters.userPetLevel)
  /\ ~(filters.userPetItem \notin {"", "none"} /\ sigPetItem(sig) # filters.userPetItem)

\* diff = 1 is a partial match, diff >= 2 is none
diffVerdict(diff) == IF diff = 0 THEN "exact" ELSE IF diff = 1 THEN "partial" ELSE "none"

starsVerdict(inputStars10, saStars) ==
  IF inputStars10 > 0 THEN diffVerdict(abs(saStars - inputStars10)) ELSE "exact"

enchantDiff(nameKey, inL, saL) ==
  LET inTier == tierFor(nameKey, inL)
      saTier == tierFor(nameKey, saL)
  IN  Max(abs(saL - inL),
          IF inTier # "MISC" /\ saTier # "MISC" THEN abs(tierRank(saTier) - tierRank(inTier))
          ELSE 0)

\* the entries of userEnchantsMap the loop does not skip
askedEnchants(userEnchantsMap) == { e \in userEnchantsMap : e.val > 0 }

\* PERFECT, PARTIAL or NONE from the verdicts on the stars and the enchantments
qualityOf(verdicts) ==
  IF "none" \in verdicts THEN "NONE"
  ELSE IF "partial" \in verdicts THEN "PARTIAL" ELSE "PERFECT"

\* mutant of strictMatchQuality: filters that are verified decide the match
strictMatchQuality_VerifiedIsPerfect(userEnchantsMap, inputStars10, sig, filters) ==
  IF sig = << >> THEN "NONE"
  ELSE IF ~applyVerifiedFiltersOrNull(sig, filters) THEN "NONE"
  ELSE IF filters.userWI \/ filters.userRarity # "" \/ filters.userPetLevel > 0 THEN "PERFECT"
  ELSE qualityOf({ starsVerdict(inputStars10, sigStars10(sig)) })

\* src/server.js, later half, lines 1365-1396
strictMatchQuality(userEnchantsMap, inputStars10, sig, filters) ==
  IF sig = << >> THEN "NONE"
  ELSE IF ~applyVerifiedFiltersOrNull(sig, filters) THEN "NONE"
  ELSE qualityOf(
         { starsVerdict(inputStars10, sigStars10(sig)) }
         \cup { LET saleLvl == saleLevel(sig, e.key, RESERVED_SIG_KEYS)
                IN  IF saleLvl = 0 THEN "none"
                    ELSE diffVerdict(enchantDiff(e.key, e.val, saleLvl))
                : e \in askedEnchants(userEnchantsMap) })

\* src/server.js, earlier half, lines 411-458
strictMatchQuality_v10(userEnchantsMap, inputStars10, sig, filters) ==
  IF sig = << >> THEN "NONE"
  ELSE IF ~applyVerifiedFiltersOrNull(sig, filters) THEN "NONE"
  ELSE qualityOf(
         { starsVerdict(inputStars10, sigStars10_v10(sig)) }
         \cup { LET saleLvl == saleLevel(sig, e.key, RESERVED_SIG_KEYS_v10)
                IN  IF saleLvl = 0 THEN "none"
                    ELSE IF tierFor(e.key, e.val) = "MISC" \/ tierFor(e.key, saleLvl) = "MISC"
                      THEN "none"
                    ELSE diffVerdict(abs(saleLvl - e.val))
                : e \in askedEnchants(userEnchantsMap) })

\* needsSignature of src/unnamed/part_007
needsSignature(userEnchantsMap, inputStars10, filters) ==
  \/ inputStars10 > 0
  \/ userEnchantsMap # {}
  \/ filters.userDye \notin {"", "none"}
  \/ filters.userSkin \notin {"", "none"}
  \/ filters.userPetSkin \notin {"", "none"}
  \/ filters.userPetLevel > 0
  \/ filters.userPetItem \notin {"", "none"}
  \/ filters.userWI
  \/ filters.userRarity # ""

\* src/unnamed/part_007, lines 382-431
strictMatchQuality_part007(userEnchantsMap, inputStars10, sig, filters) ==
  IF sig = << >>
    THEN IF needsSignature(userEnchantsMap, inputStars10, filters) THEN "NONE" ELSE "PERFECT"
  ELSE IF ~applyVerifiedFiltersOrNull(sig, filters) THEN "NONE"
  ELSE qualityOf(
         { starsVerdict(inputStars10, sigStars10_v10(sig)) }
         \cup { LET saleLvl == saleLevel(sig, e.key, RESERVED_SIG_KEYS_v10)
                IN  IF saleLvl = 0 THEN "none" ELSE diffVerdict(abs(saleLvl - e.val))
                : e \in askedEnchants(userEnchantsMap) })

\* the candidate signatures of the model
CandidateSigs ==
  { << >>,
    << Tok("tier", "legendary"), Tok("dstars", 5), Tok("stars10", 5),
       Tok("wither_impact", 1), Tok("sharpness", 6) >>,
    << Tok("tier", "legendary"), Tok("dstars", 5), Tok("mstars", 1), Tok("stars10", 6),
       Tok("dye", "aquamarine"), Tok("skin", "snowman"), Tok("sharpness", 7),
       Tok("ultimate_wise", 5) >>,
    << Tok("tier", "epic"), Tok("pet_level", 100), Tok("petskin", "pastel_sheep"),
       Tok("pet_item", "tier_boost") >>,
    << Tok("tier", "rare"), Tok("dstars", 4), Tok("stars10", 4), Tok("sharpness", 5) >> }

\* the requested stars10 and the requested enchantments of the model
RequestedStars == { 0, 5, 7 }
RequestedEnchants ==
  { {}, { Tok("sharpness", 6) }, { Tok("sharpness", 7), Tok("wise", 5) } }

\* the filter bundles: each filter is unset or asks for one value
FilterBundles ==
  [userWI : BOOLEAN, userRarity : {"", "legendary"}, userDye : {"", "none", "aquamarine"},
   userSkin : {"", "snowman"}, userPetSkin : {"", "pastel_sheep"}, userPetLevel : {0, 100},
   userPetItem : {"", "tier_boost"}]

FilterNames ==
  { "userWI", "userRarity", "userDye", "userSkin", "userPetSkin", "userPetLevel",
    "userPetItem" }

\* the filter of that name is not set in the bundle
isUnset(filters, name) ==
  IF name = "userWI" THEN ~filters.userWI
  ELSE IF name = "userPetLevel" THEN filters.userPetLevel = 0
  ELSE filters[name] \in {"", "none"}

\* the bundle with one more filter
withFilter(filters, name) ==
  IF name = "userWI" THEN [filters EXCEPT !.userWI = TRUE]
  ELSE IF name = "userRarity" THEN [filters EXCEPT !.userRarity = "legendary"]
  ELSE IF name = "userDye" THEN [filters EXCEPT !.userDye = "aquamarine"]
  ELSE IF name = "userSkin" THEN [filters EXCEPT !.userSkin = "snowman"]
  ELSE IF name = "userPetSkin" THEN [filters EXCEPT !.userPetSkin = "pastel_sheep"]
  ELSE IF name = "userPetLevel" THEN [filters EXCEPT !.userPetLevel = 100]
  ELSE [filters EXCEPT !.userPetItem = "tier_boost"]

MatchInputs ==
  { c \in [fn : {"strictMatchQuality"}, sig : CandidateSigs, inputStars10 : RequestedStars,
           userEnchantsMap : RequestedEnchants, filters : FilterBundles, added : FilterNames,
           version : {"called"}, result : {"pending"}, resultWithAdded : {"pending"}] :
      isUnset(c.filters, c.added) }

MatchInit == IngestInit /\ call \in MatchInputs

\* strictMatchQuality of the later half of src/server.js returns, for the
\* bundle and for the bundle with the added filter
StrictMatchQuality ==
  /\ call.fn = "strictMatchQuality" /\ call.version = "called"
  /\ call' = [call EXCEPT
       !.version = "src/server.js:1365",
       !.result = strictMatchQuality(call.userEnchantsMap, call.inputStars10, call.sig,
                                     call.filters),
       !.resultWithAdded = strictMatchQuality(call.userEnchantsMap, call.inputStars10,
                             call.sig, withFilter(call.filters, call.added))]
  /\ UNCHANGED << store, clock, pc, running, cycleVars, cycles, inflight, steps, start,
                  outcome, signalVars, sightings >>

\* the same for the earlier half of src/server.js
StrictMatchQuality_v10 ==
  /\ call.fn = "strictMatchQuality" /\ call.version = "called"
  /\ call' = [call EXCEPT
       !.version = "src/server.js:411",
       !.result = strictMatchQuality_v10(call.userEnchantsMap, call.inputStars10, call.sig,
                                         call.filters),
       !.resultWithAdded = strictMatchQuality_v10(call.userEnchantsMap, call.inputStars10,
                             call.sig, withFilter(call.filters, call.added))]
  /\ UNCHANGED << store, clock, pc, running, cycleVars, cycles, inflight, steps, start,
                  outcome, signalVars, sightings >>

\* the same for src/unnamed/part_007
StrictMatchQuality_part007 ==
  /\ call.fn = "strictMatchQuality" /\ call.version = "called"
  /\ call' = [call EXCEPT
       !.version = "src/unnamed/part_007",
       !.result = strictMatchQuality_part007(call.userEnchantsMap, call.inputStars10,
                                             call.sig, call.filters),
       !.resultWithAdded = strictMatchQuality_part007(call.userEnchantsMap,
                             call.inputStars10, call.sig,
                             withFilter(call.filters, call.added))]
  /\ UNCHANGED << store, clock, pc, running, cycleVars, cycles, inflight, steps, start,
                  outcome, signalVars, sightings >>

MatchNext == StrictMatchQuality \/ StrictMatchQuality_v10 \/ StrictMatchQuality_part007

SpecMatch == MatchInit /\ [][MatchNext]_vars

\* NONE < PARTIAL < PERFECT
qualityRank(q) == IF q = "PERFECT" THEN 2 ELSE IF q = "PARTIAL" THEN 1 ELSE 0

matched == call.fn = "strictMatchQuality" /\ call.version # "called"

\* C18: for the same candidate signature, requested stars10 and requested
\* enchantments, the quality with one more filter in the bundle is never
\* better than the quality without it, in every version of the matcher.
C18_MonotoneInFilters ==
  matched => qualityRank(call.resultWithAdded) <= qualityRank(call.result)

\* a signature that is not empty matched perfectly, the added filter is one
\* the signature does not meet, and the match is lost
C18_Witness ==
  /\ matched /\ call.sig # << >>
  /\ call.result = "PERFECT" /\ call.resultWithAdded = "NONE"

\* nothing that needs a signature was asked for
nothingAsked(c) ==
  /\ c.inputStars10 = 0 /\ askedEnchants(c.userEnchantsMap) = {}
  /\ ~c.filters.userWI /\ c.filters.userRarity = "" /\ c.filters.userPetLevel = 0
  /\ c.filters.userDye \in {"", "none"} /\ c.filters.userSkin \in {"", "none"}
  /\ c.filters.userPetSkin \in {"", "none"} /\ c.filters.userPetItem \in {"", "none"}

\* C19 as claimed: on an empty candidate signature the matcher returns
\* PERFECT when no filter, no stars and no enchantment was asked for, and
\* NONE otherwise.
C19_EmptySignatureQuality ==
  (matched /\ call.sig = << >>) =>
    call.result = (IF nothingAsked(call) THEN "PERFECT" ELSE "NONE")

(***************************************************************************)
(* The tokens of a signature, as buildSignature of src/parseLore.js emits  *)
(* them and as sigEnchantMap of src/server.js reads the enchantments back. *)
(***************************************************************************)
\* the reserved keys the specification names
ReservedKeys ==
  { "tier", "dstars", "mstars", "stars10", "wither_impact", "pet_level", "pet_item", "dye",
    "skin", "petskin" }

\* names of ExtraAttributes.enchantments, in the order of localeCompare on
\* their normalised keys: giant killer, sharpness, wise
EnchantmentNames == << "giant_killer", "sharpness", "ultimate_wise" >>
EnchantmentLevels == { 0, 5, 6 }

\* toSigKey: normKey, blanks to underscores
toSigKey(k) == IF k = "giant killer" THEN "giant_killer" ELSE k

\* extractEnchants: the normalised key and the level of the entries whose
\* level is positive
extractEnchants(enchantments) ==
  { Tok(normalizeEnchantKey(e.key), e.val) : e \in { x \in enchantments : x.val > 0 } }

RECURSIVE tokensInOrder(_, _)
\* the tokens of the entries of enchMap, names taken in the order given
tokensInOrder(names, enchMap) ==
  IF names = << >> THEN << >>
  ELSE LET k == normalizeEnchantKey(Head(names))
           here == { e \in enchMap : e.key = k }
       IN  (IF here = {} THEN << >>
            ELSE << Tok(toSigKey(k), (CHOOSE e \in here : TRUE).val) >>)
           \o tokensInOrder(Tail(names), enchMap)

\* sort by key, then key:level
mapToEnchantTokens(enchMap) == tokensInOrder(EnchantmentNames, enchMap)

\* the tokens buildSignature pushes before the enchantments, for an item
\* without pet and cosmetics
reservedTokens(tier, dungeon_item_level, hasWI) ==
     (IF tier # "" THEN << Tok("tier", tier) >> ELSE << >>)
  \o signatureStars(extractStars(dungeon_item_level, 0, 0, 0))
  \o (IF hasWI THEN << Tok("wither_impact", 1) >> ELSE << >>)

\* sigEnchantMap: the names and levels read back from a signature
sigEnchantMap(sig, reserved) ==
  { Tok(k, saleLevel(sig, k, reserved)) :
      k \in { normalizeEnchantKey(sig[n].key) :
                n \in { m \in 1..Len(sig) : sig[m].key \notin reserved /\ sig[m].val > 0 } } }

TokenInputs ==
  [fn : {"sigEnchantMap"}, tier : {"", "legendary"}, dungeon_item_level : {0, 5, 8},
   hasWI : BOOLEAN,
   enchantments : { { Tok(EnchantmentNames[n], lv[n]) : n \in 1..Len(EnchantmentNames) } :
                      lv \in [1..Len(EnchantmentNames) -> EnchantmentLevels] },
   version : {"called"}, sig : {<< >>}, enchTokens : {<< >>}, readBack : {{}}]

TokensInit == IngestInit /\ call \in TokenInputs

\* the signature buildSignature gives the item
builtSig(c) ==
  reservedTokens(c.tier, c.dungeon_item_level, c.hasWI)
    \o mapToEnchantTokens(extractEnchants(c.enchantments))

\* buildSignature of src/parseLore.js builds the signature and sigEnchantMap
\* of the later half of src/server.js reads it
SigEnchantMap ==
  /\ call.fn = "sigEnchantMap" /\ call.version = "called"
  /\ call' = [call EXCEPT
       !.version = "src/server.js:1309",
       !.sig = builtSig(call),
       !.enchTokens = mapToEnchantTokens(extractEnchants(call.enchantments)),
       !.readBack = sigEnchantMap(builtSig(call), RESERVED_SIG_KEYS)]
  /\ UNCHANGED << store, clock, pc, running, cycleVars, cycles, inflight, steps, start,
                  outcome, signalVars, sightings >>

\* the same, read by sigEnchantMap of the earlier half of src/server.js
SigEnchantMap_v10 ==
  /\ call.fn = "sigEnchantMap" /\ call.version = "called"
  /\ call' = [call EXCEPT
       !.version = "src/server.js:117",
       !.sig = builtSig(call),
       !.enchTokens = mapToEnchantTokens(extractEnchants(call.enchantments)),
       !.readBack = sigEnchantMap(builtSig(call), RESERVED_SIG_KEYS_v10)]
  /\ UNCHANGED << store, clock, pc, running, cycleVars, cycles, inflight, steps, start,
                  outcome, signalVars, sightings >>

TokensNext == SigEnchantMap \/ SigEnchantMap_v10

SpecTokens == TokensInit /\ [][TokensNext]_vars

\* C20 as claimed: no enchantment token of a signature has a reserved key,
\* no key occurs twice in a signature, and no reserved token is read back
\* as an enchantment.
C20_ReservedKeysApart ==
  (call.fn = "sigEnchantMap" /\ call.version # "called") =>
    /\ \A n \in 1..Len(call.enchTokens) : call.enchTokens[n].key \notin ReservedKeys
    /\ \A n, m \in 1..Len(call.sig) : call.sig[n].key = call.sig[m].key => n = m
    /\ \A e \in call.readBack : e.key \notin ReservedKeys

(***************************************************************************)
(* server.js: GET /api/recommend, later half of the file.  The request of  *)
(* the model asks for the item key "hyperion" with stars10 = 5, no         *)
(* enchantment and no filter.  A price that is null is the empty sequence, *)
(* a price p the sequence << p >>.                                         *)
(***************************************************************************)
LIVE_ALIVE_MS == 480000
LIVE_SCAN_LIMIT == 6000
SALES_LIMIT == 50000
SALES_WINDOW_DAYS == 120
MaxSales == 3

\* Date.now() of the request
RequestNow == BootTime

NoFilters ==
  [userWI |-> FALSE, userRarity |-> "", userDye |-> "", userSkin |-> "", userPetSkin |-> "",
   userPetLevel |-> 0, userPetItem |-> ""]

\* signatures with 5, 4 and 6 stars, and one without stars
sigFiveStars == << Tok("tier", "legendary"), Tok("dstars", 5), Tok("stars10", 5) >>
sigFourStars == << Tok("tier", "legendary"), Tok("dstars", 4), Tok("stars10", 4) >>
sigSixStars ==
  << Tok("tier", "legendary"), Tok("dstars", 5), Tok("mstars", 1), Tok("stars10", 6) >>
sigNoStars == << Tok("tier", "legendary"), Tok("sharpness", 6) >>

\* ensureSignature on a stored signature: the stored one when it is not
\* empty; the rows of the model that have none have nothing to build one from
ensureSignature(existingSig) == existingSig

\* the quality of a row for the request of the model
requestQuality(sig) == strictMatchQuality({}, 5, ensureSignature(sig), NoFilters)

\* rows of the sales table: age_days is (now - ended_ts) in days
SaleRow(price, sig, key, age) ==
  [final_price |-> price, signature |-> sig, item_key |-> key, age_days |-> age]

SaleRows ==
  { SaleRow(1, sigFiveStars, "hyperion", 0), SaleRow(4, sigFiveStars, "hyperion", 1),
    SaleRow(2, sigFourStars, "hyperion", 0), SaleRow(9, sigSixStars, "hyperion", 2),
    SaleRow(3, sigNoStars, "hyperion", 0), SaleRow(0, sigFiveStars, "hyperion", 0),
    SaleRow(5, sigFiveStars, "valkyrie", 0),
    SaleRow(6, sigFiveStars, "hyperion", SALES_WINDOW_DAYS + 1) }

RECURSIVE selectRows(_, _, _)
\* WHERE item_key = $1 AND ended_ts >= $2 ... LIMIT 50000, on the rows in
\* the order of the table
selectRows(rows, itemKey, limit) ==
  IF rows = << >> \/ limit = 0 THEN << >>
  ELSE IF Head(rows).item_key = itemKey /\ Head(rows).age_days <= SALES_WINDOW_DAYS
    THEN << Head(rows) >> \o selectRows(Tail(rows), itemKey, limit - 1)
  ELSE selectRows(Tail(rows), itemKey, limit)

RECURSIVE pricesOfQuality(_, _)
\* the prices pushed for the rows of that quality; rows without a positive
\* price are skipped
pricesOfQuality(rows, quality) ==
  IF rows = << >> THEN << >>
  ELSE (IF Head(rows).final_price > 0 /\ requestQuality(Head(rows).signature) = quality
        THEN << Head(rows).final_price >> ELSE << >>)
       \o pricesOfQuality(Tail(rows), quality)

RECURSIVE insertSorted(_, _)
insertSorted(x, sorted) ==
  IF sorted = << >> THEN << x >>
  ELSE IF x <= Head(sorted) THEN << x >> \o sorted
  ELSE << Head(sorted) >> \o insertSorted(x, Tail(sorted))

RECURSIVE sortAscending(_)
\* nums.slice().sort((x, y) => x - y)
sortAscending(nums) ==
  IF nums = << >> THEN << >> ELSE insertSorted(Head(nums), sortAscending(Tail(nums)))

\* Math.round((a + b) / 2) for integers a + b >= 0
roundHalf(sum) == (sum + 1) \div 2

median(nums) ==
  LET a == sortAscending(nums)
      n == Len(a)
      mid == n \div 2
  IN  IF n = 0 THEN << >>
      ELSE IF n % 2 = 1 THEN << a[mid + 1] >>
      ELSE << roundHalf(a[mid] + a[mid + 1]) >>

percentile(nums, pct) ==
  IF nums = << >> THEN << >>
  ELSE LET a == sortAscending(nums)
           idx == Min(Len(a) - 1, Max(0, (pct * (Len(a) - 1)) \div 100))
       IN  << a[idx + 1] >>

\* mutant of pricePoolOf: the partial prices are added to the perfect ones
pricePoolOf_Mixed(perfectPrices, partialPrices) == perfectPrices \o partialPrices

\* const pricePool = perfectPrices.length ? perfectPrices : partialPrices
pricePoolOf(perfectPrices, partialPrices) ==
  IF perfectPrices # << >> THEN perfectPrices ELSE partialPrices

\* recommended, range_low, range_high and range_count of the response
priceAnswer(rows) ==
  LET selected == selectRows(rows, "hyperion", SALES_LIMIT)
      pricePool == pricePoolOf(pricesOfQuality(selected, "PERFECT"),
                               pricesOfQuality(selected, "PARTIAL"))
  IN  [recommended |-> median(pricePool),
       range_low |-> percentile(pricePool, 15),
       range_high |-> percentile(pricePool, 85),
       range_count |-> Len(pricePool)]

\* rows of the auctions table, as far as the live scan reads them
LiveRow(uuid, ended, bin, key, seen, sbid, sig) ==
  [uuid |-> uuid, is_ended |-> ended, bin |-> bin, item_key |-> key, last_seen_ts |-> seen,
   starting_bid |-> sbid, signature |-> sig]

\* the rows the table may hold for one uuid
LiveRowsOf(uuid) ==
  { LiveRow(uuid, FALSE, TRUE, "hyperion", RequestNow, 1, sigFiveStars),
    LiveRow(uuid, FALSE, TRUE, "hyperion", RequestNow, 2, sigSixStars),
    LiveRow(uuid, FALSE, TRUE, "hyperion", RequestNow - LIVE_ALIVE_MS, 2, sigFiveStars),
    LiveRow(uuid, TRUE, TRUE, "hyperion", RequestNow, 1, sigFiveStars),
    LiveRow(uuid, FALSE, TRUE, "hyperion", RequestNow - LIVE_ALIVE_MS - 1, 1, sigFiveStars),
    LiveRow(uuid, FALSE, FALSE, "hyperion", RequestNow, 1, sigFiveStars),
    LiveRow(uuid, FALSE, TRUE, "valkyrie", RequestNow, 1, sigFiveStars),
    LiveRow(uuid, FALSE, TRUE, "hyperion", RequestNow, 1, sigNoStars),
    LiveRow(uuid, FALSE, TRUE, "hyperion", RequestNow, 0, sigFiveStars) }

LiveTables ==
  { one \cup two : one \in { {} } \cup { {r} : r \in LiveRowsOf("a1") },
                   two \in { {} } \cup { {r} : r \in LiveRowsOf("b2") } }

\* mutant of liveCandidates: the scan does not look at is_ended and last_seen_ts
liveCandidates_AnyRow(table, itemKey, at) ==
  { a \in table : a.bin /\ a.item_key = itemKey }

\* WHERE is_ended = false AND bin = true AND item_key = $1 AND last_seen_ts >= $2
liveCandidates(table, itemKey, at) ==
  { a \in table : /\ ~a.is_ended /\ a.bin /\ a.item_key = itemKey
                  /\ a.last_seen_ts >= at - LIVE_ALIVE_MS }

RECURSIVE orderByStartingBid(_)
\* ORDER BY starting_bid ASC: every order the statement may return the rows in
orderByStartingBid(rows) ==
  IF rows = {} THEN { << >> }
  ELSE UNION { { << r >> \o rest : rest \in orderByStartingBid(rows \ {r}) } :
                 r \in { x \in rows : \A y \in rows : x.starting_bid <= y.starting_bid } }

\* the loop over liveRows: the first row with a positive price that matches
liveBestOf(liveRows) ==
  LET passing == { n \in 1..Len(liveRows) :
                     /\ liveRows[n].starting_bid > 0
                     /\ requestQuality(liveRows[n].signature) # "NONE" }
  IN  IF passing = {} THEN << >>
      ELSE LET n == CHOOSE k \in passing : \A o \in passing : k <= o
           IN  << [uuid |-> liveRows[n].uuid, price |-> liveRows[n].starting_bid] >>

RecommendInputs ==
  [fn : {"recommend"}, sales : SeqsUpTo(SaleRows, MaxSales), auctions : LiveTables,
   version : {"called"}, answer : {<< >>}, live : {<< >>}]

RecommendInit == IngestInit /\ call \in RecommendInputs

\* GET /api/recommend answers
Recommend ==
  /\ call.fn = "recommend" /\ call.version = "called"
  /\ \E liveRows \in orderByStartingBid(liveCandidates(call.auctions, "hyperion", RequestNow)) :
       call' = [call EXCEPT
         !.version = "src/server.js:1485",
         !.answer = priceAnswer(call.sales),
         !.live = liveBestOf(SubSeq(liveRows, 1, Min(Len(liveRows), LIVE_SCAN_LIMIT)))]
  /\ UNCHANGED << store, clock, pc, running, cycleVars, cycles, inflight, steps, start,
                  outcome, signalVars, sightings >>

RecommendNext == Recommend

SpecRecommend == RecommendInit /\ [][RecommendNext]_vars

recommended == call.fn = "recommend" /\ call.version # "called"

\* the sales of the item in the window with a positive price and that quality
matchedSales(quality) ==
  { n \in 1..Len(call.sales) :
      /\ call.sales[n].item_key = "hyperion" /\ call.sales[n].age_days <= SALES_WINDOW_DAYS
      /\ call.sales[n].final_price > 0
      /\ requestQuality(call.sales[n].signature) = quality }

\* the k-th smallest price among the sales of the index set
kthPrice(idx, k) ==
  CHOOSE v \in { call.sales[n].final_price : n \in idx } :
    /\ Cardinality({ n \in idx : call.sales[n].final_price < v }) < k
    /\ Cardinality({ n \in idx : call.sales[n].final_price <= v }) >= k

\* the median of the prices of the index set: the middle price, or the mean
\* of the two middle prices rounded half up; null when the set is empty
medianPrice(idx) ==
  LET n == Cardinality(idx)
  IN  IF n = 0 THEN << >>
      ELSE IF n % 2 = 1 THEN << kthPrice(idx, (n + 1) \div 2) >>
      ELSE << (kthPrice(idx, n \div 2) + kthPrice(idx, (n \div 2) + 1) + 1) \div 2 >>

RECURSIVE withoutPartial(_)
\* the sales without those of a partial match
withoutPartial(rows) ==
  IF rows = << >> THEN << >>
  ELSE (IF requestQuality(Head(rows).signature) = "PARTIAL" THEN << >> ELSE << Head(rows) >>)
       \o withoutPartial(Tail(rows))

\* C21: recommended is the median of the prices of the perfect matches when
\* there is one, else the median of the prices of the partial matches, else
\* null; with a perfect match the answer (recommended, range, count) is the
\* answer the same sales give without the partial matches.
C21_RecommendedIsMedianOfPerfect ==
  recommended =>
    /\ call.answer.recommended =
         (IF matchedSales("PERFECT") # {} THEN medianPrice(matchedSales("PERFECT"))
          ELSE medianPrice(matchedSales("PARTIAL")))
    /\ matchedSales("PERFECT") # {} => call.answer = priceAnswer(withoutPartial(call.sales))

\* two perfect matches at 1 and 4 and a partial match at 2: recommended is 3
C21_Witness ==
  /\ recommended
  /\ Cardinality(matchedSales("PERFECT")) = 2 /\ matchedSales("PARTIAL") # {}
  /\ call.answer.recommended = << 3 >> /\ call.answer.range_count = 2

\* the live BIN auctions of the item, sighted within the alive window, that
\* match the request
liveMatches ==
  { a \in call.auctions :
      /\ ~a.is_ended /\ a.bin /\ a.item_key = "hyperion"
      /\ a.last_seen_ts >= RequestNow - LIVE_ALIVE_MS
      /\ requestQuality(a.signature) # "NONE" }

\* live is null when no auction of the set passes, else one with the lowest
\* starting bid of the set
liveIsFirstOf(passing) ==
  IF passing = {} THEN call.live = << >>
  ELSE /\ call.live # << >>
       /\ \E a \in passing :
            /\ call.live[1] = [uuid |-> a.uuid, price |-> a.starting_bid]
            /\ \A o \in passing : a.starting_bid <= o.starting_bid

\* an auction that is marked ended or was last sighted before the alive
\* window is not the live answer
liveIsAlive ==
  call.live # << >> =>
    \A a \in call.auctions :
      a.uuid = call.live[1].uuid =>
        ~a.is_ended /\ a.last_seen_ts >= RequestNow - LIVE_ALIVE_MS

isFailedAttempt == pc = "fetch" /\ pc' = "fetch" /\ tries' = tries + 1 /\ p' = p /\ ~exited'

\* C23: a fetch has at most 4 failed attempts; failed attempt i (from 0) is
\* followed by a sleep of 250 + 350 * i ms; an attempt is made only while
\* fewer than 4 have failed; after the fourth failure the fetch throws, the
\* cycle fails with it and the page is not upserted.
C23_FetchRetriesAreBounded ==
  /\ [](tries \in 0..4)
  /\ [][ isFailedAttempt => (tries < 4 /\ slept' = 250 + 350 * tries) ]_vars
  /\ [][ isUpsertStep => tries < 4 ]_vars
  /\ [][ (pc = "fetch" /\ tries = 4 /\ ~exited' /\ << pc, tries, p >>' # << pc, tries, p >>) =>
           /\ outcome' = "fetch_failed" /\ pc' = "wait" /\ ~running'
           /\ auctions' = auctions /\ p' = p
       ]_vars

\* the cycle failed on a fetch: the steps done before are the upserts of the
\* pages before the one whose fetch failed four times
C23_Witness ==
  /\ outcome = "fetch_failed" /\ pc = "wait" /\ ~exited
  /\ Len(steps) = 1 /\ p = 1

(***************************************************************************)
(* syncOnce: the page loop alone, with page counts beyond the cap.  The    *)
(* repository holds two versions: src/ingest.js and src/unnamed/part_012.  *)
(***************************************************************************)
\* totalPages values a response may report
ReportedPages == { 0, 1, 3, MAX_PAGES_HARD_CAP - 1, MAX_PAGES_HARD_CAP, MAX_PAGES_HARD_CAP + 1,
                   MAX_PAGES_HARD_CAP + 40 }

\* src/unnamed/part_012: Math.max(1, Number(first.totalPages || 1)), no cap
pagesOf_part012(reported) == Max(1, IF reported = 0 THEN 1 ELSE reported)

PageLoopInputs ==
  [fn : {"syncOnce"}, reported : ReportedPages, version : {"called"}, totalPages : {0},
   fetched : {0}, done : {FALSE}]

PageLoopInit == IngestInit /\ call \in PageLoopInputs

\* src/ingest.js: fetchPage(0) returns and sets totalPages
FetchFirstPage ==
  /\ call.fn = "syncOnce" /\ call.version = "called"
  /\ call' = [call EXCEPT !.version = "src/ingest.js",
                          !.totalPages = pagesOf(call.reported), !.fetched = 1]
  /\ UNCHANGED << store, clock, pc, running, cycleVars, cycles, inflight, steps, start,
                  outcome, signalVars, sightings >>

\* src/unnamed/part_012: fetchPage(0) returns and sets totalPages
FetchFirstPage_part012 ==
  /\ call.fn = "syncOnce" /\ call.version = "called"
  /\ call' = [call EXCEPT !.version = "src/unnamed/part_012",
                          !.totalPages = pagesOf_part012(call.reported), !.fetched = 1]
  /\ UNCHANGED << store, clock, pc, running, cycleVars, cycles, inflight, steps, start,
                  outcome, signalVars, sightings >>

\* for (let p = 1; p < totalPages; p++) fetchPage(p): the response reports
\* some totalPages of its own, which the loop does not read
FetchNextPage ==
  /\ call.fn = "syncOnce" /\ call.version # "called" /\ ~call.done
  /\ call.fetched < call.totalPages
  /\ \E reported \in ReportedPages : call' = [call EXCEPT !.fetched = call.fetched + 1]
  /\ UNCHANGED << store, clock, pc, running, cycleVars, cycles, inflight, steps, start,
                  outcome, signalVars, sightings >>

\* the loop ends
PageLoopEnds ==
  /\ call.fn = "syncOnce" /\ call.version # "called" /\ ~call.done
  /\ ~(call.fetched < call.totalPages)
  /\ call' = [call EXCEPT !.done = TRUE]
  /\ UNCHANGED << store, clock, pc, running, cycleVars, cycles, inflight, steps, start,
                  outcome, signalVars, sightings >>

PageLoopNext == FetchFirstPage \/ FetchFirstPage_part012 \/ FetchNextPage \/ PageLoopEnds

SpecPages == PageLoopInit /\ [][PageLoopNext]_vars

\* C24 as claimed: the pages fetched in a cycle are as many as page 0
\* reported, at least 1 and at most 200, whatever later pages report.
C24_PagesFromPageZeroCapped ==
  (call.fn = "syncOnce" /\ call.version # "called") =>
    /\ call.fetched <= 200
    /\ call.done =>
         call.fetched = (IF call.reported < 1 THEN 1
                         ELSE IF call.reported > 200 THEN 200 ELSE call.reported)

(***************************************************************************)
(* syncOnce: the finalize loop alone, with more rows due than 60 batches   *)
(* hold.  eligible is the number of rows the SELECT of finalizeEnded       *)
(* matches; a call promotes the rows it returns, which then have a sale    *)
(* row and match no longer.                                                *)
(***************************************************************************)
EligibleRows ==
  { 0, 1, FINALIZE_BATCH, FINALIZE_BATCH + 1, (FINALIZE_MAX_LOOPS - 1) * FINALIZE_BATCH,
    FINALIZE_MAX_LOOPS * FINALIZE_BATCH, FINALIZE_MAX_LOOPS * FINALIZE_BATCH + 1,
    (FINALIZE_MAX_LOOPS + 2) * FINALIZE_BATCH }

FinalizeLoopInputs ==
  [fn : {"finalizeLoop"}, eligible : EligibleRows, i : {0}, n : {0}, done : {FALSE}]

FinalizeLoopInit == IngestInit /\ call \in FinalizeLoopInputs

\* mutant of FinalizeCall: the loop has no cap
FinalizeCall_NoCap ==
  /\ call.fn = "finalizeLoop" /\ ~call.done
  /\ LET n == Min(call.eligible, FINALIZE_BATCH)
     IN  call' = [call EXCEPT !.n = n, !.eligible = call.eligible - n, !.i = call.i + 1,
                              !.done = (n = 0)]
  /\ UNCHANGED << store, clock, pc, running, cycleVars, cycles, inflight, steps, start,
                  outcome, signalVars, sightings >>

\* one iteration: n = await finalizeEnded(now); if (n === 0) break
FinalizeCall ==
  /\ call.fn = "finalizeLoop" /\ ~call.done
  /\ call.i < FINALIZE_MAX_LOOPS
  /\ LET n == Min(call.eligible, FINALIZE_BATCH)
     IN  call' = [call EXCEPT !.n = n, !.eligible = call.eligible - n, !.i = call.i + 1,
                              !.done = (n = 0)]
  /\ UNCHANGED << store, clock, pc, running, cycleVars, cycles, inflight, steps, start,
                  outcome, signalVars, sightings >>

\* i < FINALIZE_MAX_LOOPS is false: the loop ends
FinalizeLoopCapped ==
  /\ call.fn = "finalizeLoop" /\ ~call.done
  /\ ~(call.i < FINALIZE_MAX_LOOPS)
  /\ call' = [call EXCEPT !.done = TRUE]
  /\ UNCHANGED << store, clock, pc, running, cycleVars, cycles, inflight, steps, start,
                  outcome, signalVars, sightings >>

FinalizeLoopNext == FinalizeCall \/ FinalizeLoopCapped

SpecFinalize == FinalizeLoopInit /\ [][FinalizeLoopNext]_vars

\* C25: finalizeEnded is called at most 60 times in a cycle; the loop ends
\* before the 60th call only after a call that returned no rows, and a call
\* that returned rows is followed by another unless it was the 60th.
C25_FinalizeLoopBounded ==
  /\ [](call.fn = "finalizeLoop" => call.i <= 60)
  /\ [](call.fn = "finalizeLoop" /\ call.done /\ call.i < 60 => call.n = 0 /\ call.i > 0)
  /\ [][ (call.fn = "finalizeLoop" /\ call.i' = call.i + 1) =>
           (call.done' <=> call.n' = 0) ]_vars
  /\ [][ (call.fn = "finalizeLoop" /\ call.i' = call.i /\ call.done') => call.i = 60 ]_vars

\* the loop ended at the cap with rows still due
C25_Witness ==
  call.fn = "finalizeLoop" /\ call.done /\ call.i = 60 /\ call.n > 0 /\ call.eligible > 0

(***************************************************************************)
(* A run of the ingest loop over tables an earlier run has written.         *)
(***************************************************************************)
\* a row the earlier run upserted half a grace before this boot; the auction
\* has been sold since, so no snapshot of this run holds it
leftByEarlierRun ==
  toRow(Auction("z9", "Heroic Hyperion", TRUE, EndsLater, 10, 0, "LEGENDARY", "lore", Null),
        BootTime - PER_SYNC_GRACE_MS \div 2)

\* main() started again: the tables are kept by the database
RestartInit ==
  /\ auctions = { leftByEarlierRun }
  /\ sales = {}
  /\ ProcessInit
  /\ call = NoCall

SpecRestart == RestartInit /\ [][Next]_vars

\* C27 as stated: right after the unseen-mark of a cycle every auction row
\* that the cycle's snapshot did not contain is ended.
C27_UnseenAreEndedByFirstCycle ==
  lastStep.op = "mark" =>
    \A r \in auctions : r.last_seen_ts < now => r.is_ended

\* C27: right after the unseen-mark of a cycle every auction row last sighted
\* in an earlier cycle of the same run of main() is ended.
C27_UnseenOfThisRunAreEnded ==
  lastStep.op = "mark" =>
    \A r \in auctions :
      (r.last_seen_ts >= BootTime /\ r.last_seen_ts < now) => r.is_ended

\* the mark has just ended a row sighted by the cycle before, the shortest
\* wait earlier, which no finalize call could have ended
C27_Witness ==
  /\ lastStep.op = "mark"
  /\ \E r \in auctions : /\ r.last_seen_ts = now - LOOP_EVERY_MS
                         /\ r.last_seen_ts >= BootTime
                         /\ r.is_ended /\ r.end_ts = 0

\* the step taken is the unseen-mark of a cycle
isMarkStep == Len(steps') = Len(steps) + 1 /\ steps'[Len(steps')].op = "mark"

\* the rows the page upserts of the cycle in flight have written
upsertedThisCycle == auctions \ start.auctions

\* C28: every row upserted in a cycle carries the start timestamp of the
\* cycle, and the unseen-mark of the cycle leaves every such row as it is.
C28_MarkSparesThisCycle ==
  [][ isMarkStep =>
        \A r \in upsertedThisCycle : r.last_seen_ts = now /\ r \in auctions'
    ]_vars

\* the mark has just ended a row of an earlier cycle and left live a row
\* upserted in its own cycle
C28_Witness ==
  /\ lastStep.op = "mark"
  /\ \E r \in upsertedThisCycle : ~r.is_ended
  /\ \E q \in auctions : q.last_seen_ts < now /\ q.is_ended /\ q.end_ts = 0
                          /\ q \notin start.auctions

(***************************************************************************)
(* The two writers of sale rows: finalizeEnded of the ingest cycle and     *)
(* tools/backfill_sales_from_auctions.js, over tables a cycle has left.    *)
(***************************************************************************)
SALES_TOOL_BATCH == 50000

\* the auctions the tables hold: a BIN listing past its end, a BIN listing
\* ending later, a bid auction without an end, a BIN listing past its end
\* without a starting bid, a pet past its end whose payload cannot be decoded
PromoteFeed ==
  { Auction("p1", "Heroic Hyperion", TRUE, EndedAtBoot, 10, 0, "LEGENDARY", "lore", Null),
    Auction("p2", "Heroic Hyperion", TRUE, EndsLater, 20, 0, "LEGENDARY", "lore", Null),
    Auction("p3", "[Lvl 100] Ender Dragon", FALSE, 0, 1, 9, "EPIC", "Held Item: Tier Boost", Null),
    Auction("p4", "Heroic Hyperion", TRUE, EndedAtBoot, 0, 0, "LEGENDARY", "lore", Null),
    Auction("p5", "", FALSE, EndedAtBoot, 1, 5, Null, Null, "nbt{nested too deep}") }

\* their rows as the last cycle left them: live, or marked ended by absence
PromoteRows ==
  { [toRow(a, EndedAtBoot) EXCEPT !.is_ended = e] : a \in PromoteFeed, e \in BOOLEAN }

PromoteTables == { t \in SUBSET PromoteRows : \A x, y \in t : x.uuid = y.uuid => x = y }

PromoteInputs == [fn : {"promote"}, now : {BootTime}, writer : {"none"}]

PromoteInit ==
  /\ auctions \in PromoteTables
  /\ sales = {}
  /\ ProcessInit
  /\ call \in PromoteInputs

\* tools/backfill_sales_from_auctions.js, lines 13-26: the rows of the SELECT
toolCandidates(auctionsT, salesT, at) ==
  { r \in auctionsT : /\ r.is_ended
                      /\ r.end_ts > 0
                      /\ r.end_ts <= at
                      /\ ~hasRow(salesT, r.uuid) }

\* Number(r.bin ? r.starting_bid : r.highest_bid) || 0
priceOf(r) == IF r.bin THEN r.starting_bid ELSE r.highest_bid

\* the tool calls buildSignature, not safeBuildSignature, for a row without
\* a signature: the call may throw
toolThrows(r) ==
  /\ sigIsEmpty(r.signature)
  /\ buildSignatureThrows(r.item_name, IF r.item_lore = Null THEN "" ELSE r.item_lore,
                          IF r.tier = Null THEN "" ELSE r.tier,
                          IF r.item_bytes = Null THEN "" ELSE r.item_bytes)

\* the sale row the tool inserts for an auction row
toolSale(r) ==
  LET built == buildSignature(r.item_name, IF r.item_lore = Null THEN "" ELSE r.item_lore,
                              IF r.tier = Null THEN "" ELSE r.tier,
                              IF r.item_bytes = Null THEN "" ELSE r.item_bytes)
  IN  [toSale(r) EXCEPT !.signature = IF ~sigIsEmpty(r.signature) THEN r.signature
                                      ELSE IF built.toks # << >> THEN built ELSE NullSig]

\* INSERT INTO sales ... ON CONFLICT (uuid) DO NOTHING for the rows of the
\* batch with a price; ROLLBACK when buildSignature throws
toolInsert(salesT, batch) ==
  LET priced == { r \in batch : priceOf(r) > 0 } IN
  IF \E r \in priced : toolThrows(r) THEN salesT
  ELSE salesT \cup { toolSale(r) : r \in { x \in priced : ~hasRow(salesT, x.uuid) } }

\* one call of finalizeEnded(now) by a cycle that started at call.now
FinalizeEndedCall ==
  /\ call.fn = "promote"
  /\ \E batch \in orderByEndTsLimit(finalizeCandidates(auctions, sales, call.now), FINALIZE_BATCH) :
       /\ sales' = upsertSales(sales, batch)
       /\ auctions' = markEnded(auctions, batch)
  /\ call' = [call EXCEPT !.writer = "finalizeEnded"]
  /\ UNCHANGED << clock, pc, running, cycleVars, cycles, inflight, steps, start, outcome,
                  signalVars, sightings >>

\* one run of the tool started at call.now
SalesToolRun ==
  /\ call.fn = "promote"
  /\ \E batch \in orderByEndTsLimit(toolCandidates(auctions, sales, call.now), SALES_TOOL_BATCH) :
       sales' = toolInsert(sales, batch)
  /\ call' = [call EXCEPT !.writer = "tool"]
  /\ UNCHANGED << auctions, clock, pc, running, cycleVars, cycles, inflight, steps, start,
                  outcome, signalVars, sightings >>

\* time passes: the next cycle, or the next run of the tool, starts after the
\* end of the listing that ends later
PromoteLater ==
  /\ call.fn = "promote" /\ call.now < EndsLater
  /\ call' = [call EXCEPT !.now = EndsLater, !.writer = "none"]
  /\ UNCHANGED << store, clock, pc, running, cycleVars, cycles, inflight, steps, start,
                  outcome, signalVars, sightings >>

PromoteNext == FinalizeEndedCall \/ SalesToolRun \/ PromoteLater

SpecPromote == PromoteInit /\ [][PromoteNext]_vars

\* C29: a step creates a sale row only for an auction row whose end_ts is
\* greater than 0 and at most the now of the writing cycle or run, so an
\* auction row whose end_ts is 0 or later than that now has no sale row.
C29_SaleOnlyAfterEnd ==
  /\ [][ \A s \in sales' : ~hasRow(sales, s.uuid) =>
            \E r \in auctions : /\ r.uuid = s.uuid /\ s.ended_ts = r.end_ts
                                 /\ r.end_ts > 0 /\ r.end_ts <= call.now ]_vars
  /\ [](\A r \in auctions : (r.end_ts = 0 \/ r.end_ts > call.now) => ~hasRow(sales, r.uuid))

\* sale rows were written while a row marked ended, which ends later, and a
\* row marked ended without an end are in the table, and these have none
C29_Witness ==
  /\ call.writer # "none" /\ call.now = BootTime
  /\ hasRow(sales, "p1")
  /\ \E r \in auctions : r.uuid = "p2" /\ r.is_ended /\ r.end_ts > call.now
  /\ \E r \in auctions : r.uuid = "p3" /\ r.is_ended /\ r.end_ts = 0
  /\ ~hasRow(sales, "p2") /\ ~hasRow(sales, "p3")

(***************************************************************************)
(* The maintenance backfill loops over the sales table: part_008 (item     *)
(* keys), backfill_pet_item_signatures.js (pet items) and part_005 (stars).*)
(* Every sale of the tables ended within the lookback window of the tools. *)
(***************************************************************************)
BATCH_part008 == 5000
BATCH_petItems == 1500
batch_part005 == 200
loops == 200000
stopAfterNoProgressBatches == 50
\* iterations followed of a loop that has no cap of its own
MaxIterations == 4

\* the auctions the sales were promoted from: a starred weapon, a pet holding
\* an item, an auction without a name, lore or payload, a weapon without
\* stars, a pet whose payload cannot be decoded
BackfillFeed ==
  { Auction("s1", "Heroic Hyperion", TRUE, EndedAtBoot, 10, 0, "LEGENDARY", "lore",
            "nbt{dungeon_item_level:5}"),
    Auction("s2", "[Lvl 100] Ender Dragon", FALSE, EndedAtBoot, 1, 9, "EPIC",
            "Held Item: Tier Boost", Null),
    Auction("s3", "", FALSE, EndedAtBoot, 1, 5, Null, Null, Null),
    Auction("s4", "Heroic Hyperion", TRUE, EndedAtBoot, 10, 0, "LEGENDARY", "lore", Null),
    Auction("s5", "[Lvl 100] Ender Dragon", FALSE, EndedAtBoot, 1, 7, "EPIC", Null,
            "nbt{nested too deep}") }

\* their sale rows: as finalizeEnded wrote them, or written by an earlier
\* version without item_key, or without signature
BackfillRows ==
  UNION { { toSale(toRow(a, EndedAtBoot)),
            [toSale(toRow(a, EndedAtBoot)) EXCEPT !.item_key = Null],
            [toSale(toRow(a, EndedAtBoot)) EXCEPT !.signature = NullSig] } : a \in BackfillFeed }

BackfillTables == { t \in SUBSET BackfillRows : \A x, y \in t : x.uuid = y.uuid => x = y }

BackfillInputs ==
  [fn : {"backfillLoop"}, tool : {"part_008", "petItems", "part_005"}, i : {0}, n : {0},
   noProgress : {0}, done : {FALSE}]

BackfillInit ==
  /\ auctions = {}
  /\ sales \in BackfillTables
  /\ ProcessInit
  /\ call \in BackfillInputs

\* LIMIT n without a total order: the sets of rows the SELECT may return
limitRows(rows, n) == { b \in SUBSET rows : Cardinality(b) = Min(Cardinality(rows), n) }

sigHasTok(sig, key) == ~sig.isNull /\ \E n \in 1..Len(sig.toks) : sig.toks[n].key = key

loreOf(r) == IF r.item_lore = Null THEN "" ELSE r.item_lore
bytesOf(r) == IF r.item_bytes = Null THEN "" ELSE r.item_bytes

\* backfill_pet_item_signatures.js, backfillTable: the WHERE of the SELECT
missingPetItem(salesT) ==
  { r \in salesT : /\ sigIsEmpty(r.signature) \/ ~sigHasPetItem(r.signature)
                   /\ r.item_lore # Null \/ r.item_bytes # Null }

\* backfill_pet_item_signatures.js, backfillTable: the rows after the COMMIT
backfillPetItems(salesT, batch) ==
  { IF r \in batch
       /\ ~sigIsEmpty(safeBuildSignature(r.item_name, loreOf(r),
                                         IF r.tier = Null THEN "" ELSE r.tier, bytesOf(r)))
    THEN [r EXCEPT !.signature = safeBuildSignature(r.item_name, loreOf(r),
                                   IF r.tier = Null THEN "" ELSE r.tier, bytesOf(r))]
    ELSE r : r \in salesT }

\* part_005, backfill: the WHERE of the SELECT, as far as a signature of this
\* model shows it: no signature, or neither dungeon nor master stars
missingStars(salesT) ==
  { r \in salesT : \/ sigIsEmpty(r.signature)
                   \/ ~sigHasTok(r.signature, "dstars") /\ ~sigHasTok(r.signature, "mstars") }

\* part_005, backfill: buildSignature throws on a row of the batch
backfillStarsThrows(batch) ==
  \E r \in batch : buildSignatureThrows(r.item_name, loreOf(r), "", bytesOf(r))

\* part_005, backfill: the rows the batch updates, those whose rebuilt
\* signature is not empty and differs from the stored one
starsUpdated(batch) ==
  { r \in batch : LET newSig == buildSignature(r.item_name, loreOf(r), "", bytesOf(r))
                  IN  newSig.toks # << >> /\ newSig # r.signature }

\* part_005, backfill: the rows after the COMMIT
backfillStars(salesT, batch) ==
  { IF r \in starsUpdated(batch)
    THEN [r EXCEPT !.signature = buildSignature(r.item_name, loreOf(r), "", bytesOf(r))]
    ELSE r : r \in salesT }

\* the rows the SELECT of a loop matches
selectedBy(tool, salesT) ==
  CASE tool = "part_008" -> missingItemKey(salesT)
    [] tool = "petItems" -> missingPetItem(salesT)
    [] tool = "part_005" -> missingStars(salesT)

\* part_008, main: one pass of while (true)
KeyLoopBatch ==
  /\ call.fn = "backfillLoop" /\ call.tool = "part_008" /\ ~call.done
  /\ call.i < MaxIterations
  /\ \E batch \in limitRows(missingItemKey(sales), BATCH_part008) :
       /\ sales' = IF batch = {} THEN sales ELSE backfillSalesItemKeys(sales, batch)
       /\ call' = [call EXCEPT !.i = call.i + 1, !.n = Cardinality(batch),
                                !.done = (batch = {})]
  /\ UNCHANGED << auctions, clock, pc, running, cycleVars, cycles, inflight, steps, start,
                  outcome, signalVars, sightings >>

\* backfill_pet_item_signatures.js, backfillTable: one pass of while (true)
PetItemLoopBatch ==
  /\ call.fn = "backfillLoop" /\ call.tool = "petItems" /\ ~call.done
  /\ call.i < MaxIterations
  /\ \E batch \in orderByEndedTsDescLimit(missingPetItem(sales), BATCH_petItems) :
       /\ sales' = IF batch = {} THEN sales ELSE backfillPetItems(sales, batch)
       /\ call' = [call EXCEPT !.i = call.i + 1, !.n = Cardinality(batch),
                                !.done = (batch = {})]
  /\ UNCHANGED << auctions, clock, pc, running, cycleVars, cycles, inflight, steps, start,
                  outcome, signalVars, sightings >>

\* part_005, backfill: one pass of for (let i = 0; i < loops; i++); the loop
\* ends on an empty batch, after stopAfterNoProgressBatches batches without
\* an update, and when buildSignature throws (ROLLBACK, the error is rethrown)
StarsLoopBatch ==
  /\ call.fn = "backfillLoop" /\ call.tool = "part_005" /\ ~call.done
  /\ call.i < loops
  /\ \E batch \in orderByEndedTsDescLimit(missingStars(sales), batch_part005) :
       LET thrown == backfillStarsThrows(batch)
           updated == IF thrown THEN 0 ELSE Cardinality(starsUpdated(batch))
           idle == IF batch # {} /\ ~thrown /\ updated = 0 THEN call.noProgress + 1
                   ELSE IF batch # {} /\ ~thrown THEN 0 ELSE call.noProgress
       IN  /\ sales' = IF batch = {} \/ thrown THEN sales ELSE backfillStars(sales, batch)
           /\ call' = [call EXCEPT !.i = call.i + 1, !.n = Cardinality(batch),
                                    !.noProgress = idle,
                                    !.done = \/ batch = {}
                                             \/ thrown
                                             \/ idle >= stopAfterNoProgressBatches]
  /\ UNCHANGED << auctions, clock, pc, running, cycleVars, cycles, inflight, steps, start,
                  outcome, signalVars, sightings >>

BackfillNext == KeyLoopBatch \/ PetItemLoopBatch \/ StarsLoopBatch

SpecBackfill == BackfillInit /\ [][BackfillNext]_vars

\* C30 as claimed: every pass of a backfill loop over a batch that is not
\* empty leaves fewer rows that match the SELECT of the loop than it found.
C30_BatchReducesSelection ==
  [][ (call'.i = call.i + 1 /\ call'.n > 0) =>
        Cardinality(selectedBy(call.tool, sales')) < Cardinality(selectedBy(call.tool, sales))
    ]_vars

(***************************************************************************)
(* extractStars on an item with upgrade_level only.                        *)
(***************************************************************************)
\* C26 as claimed: with dungeon_item_level 0 and upgrade_level u in 1..5 the
\* stars are (5, u) when the total read from the name and the lore is 6 or
\* more, and (u, 0) otherwise.
C26_UpgradeLevelDisambiguated ==
  (/\ call.fn = "buildSignature" /\ call.version # "called"
   /\ call.dungeon_item_level = 0 /\ call.upgrade_level \in 1..5) =>
    call.stars = (IF Max(call.fromName, call.fromLore) >= 6
                  THEN [dstars |-> 5, mstars |-> call.upgrade_level]
                  ELSE [dstars |-> call.upgrade_level, mstars |-> 0])

====
